---- MODULE Spec2Model ----
(***************************************************************************)
(* State-machine model of the kontext context-engineering engines:         *)
(*   ContextMemory      (src/src/engines/ContextMemory.ts)                 *)
(*   ContextSynthesizer (src/src/engines/ContextSynthesizer.ts)            *)
(*   ContextAnalyzer    (src/src/engines/ContextAnalyzer.ts)               *)
(*   PromptEngineer     (src/unnamed/part_004)                             *)
(* and of the desktop shell that drives them:                              *)
(*   ShortcutManager    (src/unnamed/part_000, src/MIGRATION_SUMMARY.md)   *)
(*   ProcessingHelper   (src/unnamed/part_002)                             *)
(*   LLMHelper          (src/dist-electron/LLMHelper.js)                   *)
(*   WindowHelper       (src/electron/WindowHelper.ts)                     *)
(*                                                                         *)
(* Conventions                                                             *)
(*   - time is counted in hours: Date.now() is the variable now, a         *)
(*     timestamp t falls in hour-of-day t % HoursPerDay;                   *)
(*   - a pattern confidence c is stored as the integer c * ConfScale, a    *)
(*     relevance score s as s * ScoreScale and a ScreenContext confidence  *)
(*     in tenths, so that every quotient of the code is an exact integer;  *)
(*   - a JavaScript string is a TLA+ string, template literals are \o;     *)
(*   - null is the handle 0 (a timer handle is a positive integer);        *)
(*   - the shortcut clock is counted in milliseconds; a window's bounds    *)
(*     are integers of pixels, floored where setBounds floors them.        *)
(***************************************************************************)
EXTENDS Integers, Sequences, FiniteSets, TLC

VARIABLES
    config,           \* ContextMemory.config
    contextHistory,   \* ContextMemory.contextHistory
    contextPatterns,  \* ContextMemory.contextPatterns (a Map: key -> pattern)
    cleanupTimer,     \* ContextMemory.cleanupTimer (0 is null)
    intervals,        \* the runtime's set of armed setInterval handles
    now,              \* Date.now(), in hours
    lastOp,           \* log: the method that returned last
    returned,         \* log: the value that call returned (<<>> for void)
    recorded,         \* log: every snapshot passed to addContextSnapshot, in call order
    cleanupRan,       \* log: cleanup() has run at least once
    destroyed,        \* log: destroy() has been called
    minedRuns,        \* log: identifyPatterns() calls in succession since any other call, up to 2
    lastArgs,         \* log: the arguments of that call
    domainKnowledge,  \* ContextSynthesizer.domainKnowledge (a Map: domain -> record of array references)
    heap,             \* the arrays those references point to
    synthCalls,       \* log: number of synthesizeContext calls
    activeContext,    \* ContextAnalyzer.activeContext (<<>> is null)
    analyses,         \* log: number of analyzeScreenContext calls
    templates,        \* PromptEngineer.templates (a Map, as the sequence of its values)
    request,          \* the arguments of the call under study, where a run has one
    handedOut,        \* the ContextPattern object a caller holds from getPattern / getPatterns (<<>> is none)
    lastCmd4Time,     \* ShortcutManager.lastCmd4Time
    timers,           \* the runtime's pending setTimeout callbacks of the Cmd/Ctrl+4 handler: their due times, in arming order
    clock,            \* Date.now(), in milliseconds
    gesture,          \* log: how the last Cmd/Ctrl+4 press was taken, "none" once another shortcut chose a model
    currentModel,     \* LLMHelper.currentModel
    speedMode,        \* log: the argument of the last setSpeedMode call
    notified,         \* log: the model of the last "model-changed" message to the window ("" is none)
    toggles,          \* log: toggleSpeedMode calls in succession since any other model change, up to 2
    beforeToggles,    \* log: the current model before the first of them
    mainWindow,       \* WindowHelper.mainWindow: the window's bounds (<<>> is null)
    workArea,         \* screen.getPrimaryDisplay().workAreaSize
    resized,          \* log: the last resize call and the size it found
    resizes,          \* log: number of resize calls
    view,             \* AppState.view
    screenshotQueue,  \* ScreenshotHelper.screenshotQueue
    extraScreenshotQueue, \* ScreenshotHelper.extraScreenshotQueue
    problemInfo,      \* AppState.problemInfo (0 is null, n the result of run n)
    hasDebugged,      \* AppState.hasDebugged
    currentProcessingAbortController,      \* ProcessingHelper field (0 is null, n the n-th AbortController)
    currentExtraProcessingAbortController, \* ProcessingHelper field (0 is null)
    controllers,      \* number of AbortControllers constructed
    aborted,          \* the AbortControllers whose abort() has been called
    runs,             \* the processScreenshots invocations, in call order
    cancelled         \* log: cancelOngoingRequests() has been called

shortcutVars == <<lastCmd4Time, timers, clock, gesture, currentModel, speedMode, notified,
                  toggles, beforeToggles>>

windowVars == <<mainWindow, workArea, resized, resizes>>

processingVars == <<view, screenshotQueue, extraScreenshotQueue, problemInfo, hasDebugged,
                    currentProcessingAbortController, currentExtraProcessingAbortController,
                    controllers, aborted, runs, cancelled>>

vars == <<config, contextHistory, contextPatterns, cleanupTimer, intervals, now,
          lastOp, returned, lastArgs, recorded, cleanupRan, destroyed, minedRuns,
          domainKnowledge, heap, synthCalls, activeContext, analyses, templates, request,
          handedOut, shortcutVars, processingVars, windowVars>>

memoryVars == <<config, contextHistory, contextPatterns, cleanupTimer, intervals, now,
                recorded, cleanupRan, destroyed, minedRuns>>

synthVars == <<domainKnowledge, heap, synthCalls>>

analyzerVars == <<activeContext, analyses>>

promptVars == <<templates>>

desktopVars == <<shortcutVars, windowVars, processingVars>>

\* the state of the context engines
engineVars == <<memoryVars, lastOp, returned, lastArgs, synthVars, analyzerVars, promptVars,
                  request, handedOut>>

-----------------------------------------------------------------------------
(* Bounds of the model *)

MaxAdds == 3           \* addContextSnapshot calls in one run
MaxTime == 2           \* the clock runs over 0..MaxTime
MaxHistorySize == 2    \* config.maxHistorySize ranges over 0..MaxHistorySize
MaxResults == 2        \* maxResults ranges over 0..MaxResults
MaxSynth == 3          \* synthesizeContext calls in one run
MaxAnalyses == 3       \* analyzeScreenContext calls in one run
MaxTemplates == 2      \* a registry holds up to MaxTemplates templates
MaxFill == 5           \* prompt lengths range from ConciseLimit - MaxFill to above ConciseLimit + MaxFill

(* Program constants *)

HoursPerDay == 24
ConfScale == 3 * 4 * 5      \* common denominator of /10, /15 and /20
ScoreScale == HoursPerDay * 100

Null == 0

Min(a, b) == IF a < b THEN a ELSE b
Max(a, b) == IF a > b THEN a ELSE b

-----------------------------------------------------------------------------
(* Input domains *)

Ids == {"c1", "c2"}
\* the (environment, activity) classifications met in the runs
Kinds == { <<"ide", "coding">>, <<"design", "design">> }
Thresholds == {2}
RetentionPeriods == {1}

ScreenContext(id, ts, kind) ==
    [id |-> id, timestamp |-> ts, environment |-> kind[1], activity |-> kind[2],
     confidence |-> 5,
     applicationDetails |-> [activeApplication |-> "Code", windowTitle |-> ""]]

\* the contexts the analyzer can hand over at time t as its n-th context: it
\* stamps each with Date.now() and a fresh id
FreshContexts(n, t) ==
    { ScreenContext("ctx" \o ToString(n), t, kind) : kind \in Kinds }

\* the contexts a caller can ask about at time t
ContextsAt(t) ==
    { ScreenContext(id, t, kind) : id \in Ids, kind \in Kinds }

\* any contexts with timestamps up to t, ids repeating
ContextsUpTo(t) ==
    { ScreenContext(id, ts, kind) : id \in Ids, ts \in 0..t, kind \in Kinds }

\* addContextSnapshot(context) with the default userActions, outcomes, duration
Snapshot(context) ==
    [context |-> context, userActions |-> <<>>, outcomes |-> <<>>, duration |-> 0]

-----------------------------------------------------------------------------
(* Array helpers *)

\* a slice that keeps the head of the array instead of its tail
SliceHead(arr, start) ==
    SubSeq(arr, 1, Min(Len(arr), IF start < 0 THEN -start ELSE start))

\* Array.prototype.slice(start) with one argument: a negative start counts from
\* the end, and -0 is 0
SliceFrom(arr, start) ==
    LET len == Len(arr)
        k   == IF start < 0 THEN Max(len + start, 0) ELSE Min(start, len)
    IN  SubSeq(arr, k + 1, len)

\* Array.prototype.slice(start, end) for start, end >= 0
Slice(arr, start, end) == SubSeq(arr, start + 1, Min(end, Len(arr)))

Range(arr) == { arr[i] : i \in DOMAIN arr }

\* the distinct values of arr in order of first occurrence: the key order of a
\* Map filled by has / set while walking arr
RECURSIVE Distinct(_)
Distinct(arr) ==
    IF arr = <<>> THEN <<>>
    ELSE LET init == Distinct(SubSeq(arr, 1, Len(arr) - 1))
             last == arr[Len(arr)]
         IN  IF last \in Range(init) THEN init ELSE Append(init, last)

\* Map.prototype.set
MapSet(map, key, value) ==
    [k \in DOMAIN map \cup {key} |-> IF k = key THEN value ELSE map[k]]

EmptyMap == [k \in {} |-> 0]

-----------------------------------------------------------------------------
(* ContextMemory: pattern detection *)

\* identifyTriggers(snapshot)
identifyTriggers(snapshot) ==
    (IF snapshot.context.applicationDetails.activeApplication # ""
     THEN << [type |-> "application",
              condition |-> "app=" \o snapshot.context.applicationDetails.activeApplication,
              weight |-> 8] >>
     ELSE <<>>)
    \o << [type |-> "environment",
           condition |-> "env=" \o snapshot.context.environment,
           weight |-> 6] >>

\* updatePatterns with the frequency left as it was
updatePatternsStuck(map, snapshot) ==
    LET context == snapshot.context
        patternKey == context.environment \o "-" \o context.activity
    IN  IF patternKey \notin DOMAIN map
        THEN MapSet(map, patternKey,
                    [id |-> patternKey,
                     name |-> context.environment \o " " \o context.activity \o " pattern",
                     frequency |-> 1,
                     contexts |-> <<context>>,
                     triggers |-> identifyTriggers(snapshot),
                     outcomes |-> <<>>,
                     confidence |-> ConfScale \div 10])
        ELSE [map EXCEPT ![patternKey] =
                [@ EXCEPT !.contexts = Append(@, context),
                          !.confidence = Min(ConfScale, (map[patternKey].frequency * ConfScale) \div 10)]]

\* updatePatterns(snapshot): the pattern map after the call
updatePatterns(map, snapshot) ==
    LET context == snapshot.context
        patternKey == context.environment \o "-" \o context.activity
    IN  IF patternKey \notin DOMAIN map
        THEN MapSet(map, patternKey,
                    [id |-> patternKey,
                     name |-> context.environment \o " " \o context.activity \o " pattern",
                     frequency |-> 1,
                     contexts |-> <<context>>,
                     triggers |-> identifyTriggers(snapshot),
                     outcomes |-> <<>>,
                     confidence |-> ConfScale \div 10])
        ELSE LET frequency == map[patternKey].frequency + 1
             IN  [map EXCEPT ![patternKey] =
                    [@ EXCEPT !.frequency = frequency,
                              !.contexts = Append(@, context),
                              !.confidence = Min(ConfScale, (frequency * ConfScale) \div 10)]]

\* extractCommonTriggers(snapshots)
extractCommonTriggers(snapshots) ==
    IF Len(snapshots) > 0
    THEN << [type |-> "environment",
             condition |-> "environment=" \o snapshots[1].context.environment,
             weight |-> 7] >>
    ELSE <<>>

\* every outcome of every snapshot, in forEach order
RECURSIVE AllOutcomes(_)
AllOutcomes(snapshots) ==
    IF snapshots = <<>> THEN <<>>
    ELSE Head(snapshots).outcomes \o AllOutcomes(Tail(snapshots))

RECURSIVE TotalValue(_)
TotalValue(outcomes) ==
    IF outcomes = <<>> THEN 0 ELSE Head(outcomes).value + TotalValue(Tail(outcomes))

\* extractCommonOutcomes(snapshots): one entry per metric, in order of first
\* occurrence; successRate is successes / frequency and averageValue is
\* totalValue / frequency, kept as their numerators
extractCommonOutcomes(snapshots) ==
    LET all == AllOutcomes(snapshots)
        metrics == Distinct([i \in DOMAIN all |-> all[i].metric])
        of(m) == SelectSeq(all, LAMBDA o : o.metric = m)
    IN  [i \in DOMAIN metrics |->
            [pattern |-> metrics[i],
             frequency |-> Len(of(metrics[i])),
             successes |-> Len(SelectSeq(of(metrics[i]), LAMBDA o : o.success)),
             totalValue |-> TotalValue(of(metrics[i]))]]

\* history grouped by keys (keys[i] is the group key of history[i]): the groups
\* in order of first occurrence, those below the threshold left out
Groups(history, keys, threshold) ==
    LET distinct == Distinct(keys)
        members(k) == { i \in DOMAIN history : keys[i] = k }
        pick(k) == LET at == SelectSeq([i \in DOMAIN history |-> i], LAMBDA i : keys[i] = k)
                   IN  [j \in DOMAIN at |-> history[at[j]]]
        kept == SelectSeq(distinct, LAMBDA k : Cardinality(members(k)) >= threshold)
    IN  [i \in DOMAIN kept |-> [key |-> kept[i], snapshots |-> pick(kept[i])]]

ContextsOf(snapshots) == [i \in DOMAIN snapshots |-> snapshots[i].context]

\* identifyEnvironmentPatterns()
identifyEnvironmentPatterns(history, threshold) ==
    LET groups == Groups(history,
                         [i \in DOMAIN history |-> history[i].context.environment],
                         threshold)
    IN  [g \in DOMAIN groups |->
            LET environment == groups[g].key
                snapshots == groups[g].snapshots
            IN  [id |-> "env-" \o environment,
                 name |-> environment \o " environment pattern",
                 frequency |-> Len(snapshots),
                 contexts |-> ContextsOf(snapshots),
                 triggers |-> extractCommonTriggers(snapshots),
                 outcomes |-> extractCommonOutcomes(snapshots),
                 confidence |-> Min(ConfScale, (Len(snapshots) * ConfScale) \div 20)]]

\* identifyActivityPatterns()
identifyActivityPatterns(history, threshold) ==
    LET groups == Groups(history,
                         [i \in DOMAIN history |-> history[i].context.activity],
                         threshold)
    IN  [g \in DOMAIN groups |->
            LET activity == groups[g].key
                snapshots == groups[g].snapshots
            IN  [id |-> "activity-" \o activity,
                 name |-> activity \o " activity pattern",
                 frequency |-> Len(snapshots),
                 contexts |-> ContextsOf(snapshots),
                 triggers |-> extractCommonTriggers(snapshots),
                 outcomes |-> extractCommonOutcomes(snapshots),
                 confidence |-> Min(ConfScale, (Len(snapshots) * ConfScale) \div 15)]]

\* identifyTemporalPatterns(): the key is new Date(timestamp).getHours()
identifyTemporalPatterns(history, threshold) ==
    LET groups == Groups(history,
                         [i \in DOMAIN history |-> history[i].context.timestamp % HoursPerDay],
                         threshold)
    IN  [g \in DOMAIN groups |->
            LET hour == groups[g].key
                snapshots == groups[g].snapshots
            IN  [id |-> "time-" \o ToString(hour),
                 name |-> ToString(hour) \o ":00 temporal pattern",
                 frequency |-> Len(snapshots),
                 contexts |-> ContextsOf(snapshots),
                 triggers |-> << [type |-> "temporal",
                                  condition |-> "hour=" \o ToString(hour),
                                  weight |-> 10] >>,
                 outcomes |-> extractCommonOutcomes(snapshots),
                 confidence |-> Min(ConfScale, (Len(snapshots) * ConfScale) \div 10)]]

\* the patterns identifyPatterns() collects and returns
MinedPatterns(history, threshold) ==
    identifyEnvironmentPatterns(history, threshold)
    \o identifyActivityPatterns(history, threshold)
    \o identifyTemporalPatterns(history, threshold)

\* a pattern store that adds the new frequency to the one already stored
StorePatternAccumulating(map, pattern) ==
    IF pattern.id \in DOMAIN map
    THEN MapSet(map, pattern.id,
                [pattern EXCEPT !.frequency = @ + map[pattern.id].frequency])
    ELSE MapSet(map, pattern.id, pattern)

\* this.contextPatterns.set(pattern.id, pattern)
StorePattern(map, pattern) == MapSet(map, pattern.id, pattern)

\* patterns.forEach(pattern => this.contextPatterns.set(pattern.id, pattern))
RECURSIVE StoreAll(_, _)
StoreAll(map, patterns) ==
    IF patterns = <<>> THEN map
    ELSE StoreAll(StorePattern(map, Head(patterns)), Tail(patterns))

\* a pattern update that clears the map before storing
StorePatternsReplacing(map, patterns) == StoreAll(EmptyMap, patterns)

\* "Update pattern storage" of identifyPatterns()
StorePatterns(map, patterns) == StoreAll(map, patterns)

\* getPatterns(), as a set
getPatterns(map) == { map[k] : k \in DOMAIN map }

-----------------------------------------------------------------------------
(* ContextMemory: retrieval *)

\* the recency term of calculateRelevanceScore, times ScoreScale:
\* Math.max(0, 1 - timeDiff / maxTime) * 0.15, timeDiff = current - historical
recencyTerm(current, historical) ==
    LET timeDiff    == current.timestamp - historical.timestamp
        maxTime     == HoursPerDay
        \* timeScore * maxTime
        timeScore   == Max(0, maxTime - timeDiff)
    IN  (timeScore * 15 * ScoreScale) \div (maxTime * 100)

\* calculateRelevanceScore(current, historical), times ScoreScale
calculateRelevanceScore(current, historical) ==
    LET environment == IF current.environment = historical.environment
                       THEN (3 * ScoreScale) \div 10 ELSE 0
        activity    == IF current.activity = historical.activity
                       THEN (25 * ScoreScale) \div 100 ELSE 0
        application == IF current.applicationDetails.activeApplication
                          = historical.applicationDetails.activeApplication
                       THEN (2 * ScoreScale) \div 10 ELSE 0
        recency     == recencyTerm(current, historical)
        confidence  == (historical.confidence * ScoreScale) \div 100
    IN  Min(ScoreScale, environment + activity + application + recency + confidence)

\* a filter that lets every snapshot through
KeepAll(snapshot, currentContext) == TRUE

\* the filter of getRelevantContext: snapshot.context.id !== currentContext.id
NotSelf(snapshot, currentContext) == snapshot.context.id # currentContext.id

\* a comparator that sorts ascending
CompareAscending(a, b) == a.relevanceScore - b.relevanceScore

\* the comparator of getRelevantContext: (a, b) => b.relevanceScore - a.relevanceScore
Compare(a, b) == b.relevanceScore - a.relevanceScore

\* Array.prototype.sort(Compare), which is stable: item goes before the first
\* element that Compare orders after it
SortedInsert(sorted, item) ==
    LET later == { j \in DOMAIN sorted : Compare(sorted[j], item) > 0 }
        pos   == IF later = {} THEN Len(sorted) + 1
                 ELSE CHOOSE j \in later : \A k \in later : j <= k
    IN  SubSeq(sorted, 1, pos - 1) \o <<item>> \o SubSeq(sorted, pos, Len(sorted))

RECURSIVE Sort(_)
Sort(arr) ==
    IF arr = <<>> THEN <<>>
    ELSE SortedInsert(Sort(SubSeq(arr, 1, Len(arr) - 1)), arr[Len(arr)])

\* getRelevantContext(currentContext, maxResults): the array it returns
getRelevantContext(history, currentContext, maxResults) ==
    LET eligible == SelectSeq(history, LAMBDA s : NotSelf(s, currentContext))
        scored   == [i \in DOMAIN eligible |->
                        [snapshot |-> eligible[i],
                         relevanceScore |->
                            calculateRelevanceScore(currentContext, eligible[i].context)]]
        top      == Slice(Sort(scored), 0, maxResults)
    IN  [i \in DOMAIN top |-> top[i].snapshot]

-----------------------------------------------------------------------------
(* ContextMemory: the operations *)

\* a retention test that keeps a snapshot stamped exactly at the cutoff
RetainedInclusive(snapshot, cutoffTime) == snapshot.context.timestamp >= cutoffTime

\* the filter of cleanup(): snapshot.context.timestamp > cutoffTime
Retained(snapshot, cutoffTime) == snapshot.context.timestamp > cutoffTime

\* the history cleanup() leaves when it runs at time t
CleanedHistory(history, t, retentionPeriod) ==
    LET cutoffTime == t - retentionPeriod
    IN  SelectSeq(history, LAMBDA s : Retained(s, cutoffTime))

\* the history addContextSnapshot leaves
PushedHistory(history, snapshot, maxHistorySize) ==
    LET pushed == Append(history, snapshot)
    IN  IF Len(pushed) > maxHistorySize
        THEN SliceFrom(pushed, -maxHistorySize)
        ELSE pushed

\* the handle setInterval returns to the constructor
TimerHandle == 1

\* clearInterval left out
clearIntervalMissing(armed, handle) == armed

\* clearInterval(handle)
clearInterval(armed, handle) == armed \ {handle}

\* no pattern object has been handed out
NoHandle == <<>>

\* what getPattern(patternId) hands out: the Map's own object. `pattern` is the
\* object as its holder sees it now, `obtained` its value when handed out,
\* `stored` whether the Map still holds this very object
HandOut(pattern) == [pattern |-> pattern, obtained |-> pattern, stored |-> TRUE]

\* the held object after updatePatterns(snapshot): an existing pattern is
\* changed in place (frequency += 1, contexts.push, confidence), so the holder
\* of the Map's object sees the change
HandleAfterUpdate(held, map, snapshot) ==
    LET patternKey == snapshot.context.environment \o "-" \o snapshot.context.activity
    IN  IF held # NoHandle /\ held.stored /\ held.pattern.id = patternKey
        THEN [held EXCEPT !.pattern = updatePatterns(map, snapshot)[patternKey]]
        ELSE held

\* the held object after identifyPatterns() stored `patterns`: set(id, pattern)
\* puts a new object under the id and leaves the old one as it was
HandleAfterStore(held, patterns) ==
    IF held # NoHandle /\ held.stored
       /\ \E i \in DOMAIN patterns : patterns[i].id = held.pattern.id
    THEN [held EXCEPT !.stored = FALSE]
    ELSE held

AddContextSnapshot(context) ==
    /\ Len(recorded) < MaxAdds
    /\ LET snapshot == Snapshot(context)
       IN  /\ contextHistory' = PushedHistory(contextHistory, snapshot, config.maxHistorySize)
           /\ contextPatterns' = updatePatterns(contextPatterns, snapshot)
           /\ handedOut' = HandleAfterUpdate(handedOut, contextPatterns, snapshot)
           /\ recorded' = Append(recorded, snapshot)
    /\ lastOp' = "addContextSnapshot"
    /\ lastArgs' = <<>>
    /\ returned' = <<>>
    /\ minedRuns' = 0
    /\ UNCHANGED <<config, cleanupTimer, intervals, now, cleanupRan, destroyed, synthVars, analyzerVars, promptVars, request, desktopVars>>

\* cleanup() called by the owner
Cleanup ==
    /\ contextHistory' = CleanedHistory(contextHistory, now, config.contextRetentionPeriod)
    /\ cleanupRan' = TRUE
    /\ lastOp' = "cleanup"
    /\ lastArgs' = <<>>
    /\ returned' = <<>>
    /\ minedRuns' = 0
    /\ UNCHANGED <<config, contextPatterns, cleanupTimer, intervals, now, recorded,
                   destroyed, synthVars, analyzerVars, promptVars, request, handedOut, desktopVars>>

\* the setInterval callback of initializeCleanupTimer: runs while the interval
\* is armed, at a time the runtime chooses
TimerCleanup ==
    /\ TimerHandle \in intervals
    /\ contextHistory' = CleanedHistory(contextHistory, now, config.contextRetentionPeriod)
    /\ cleanupRan' = TRUE
    /\ lastOp' = "timerCleanup"
    /\ lastArgs' = <<>>
    /\ returned' = <<>>
    /\ minedRuns' = 0
    /\ UNCHANGED <<config, contextPatterns, cleanupTimer, intervals, now, recorded,
                   destroyed, synthVars, analyzerVars, promptVars, request, handedOut, desktopVars>>

IdentifyPatterns ==
    /\ LET patterns == MinedPatterns(contextHistory, config.patternDetectionThreshold)
       IN  /\ contextPatterns' = StorePatterns(contextPatterns, patterns)
           /\ handedOut' = HandleAfterStore(handedOut, patterns)
           /\ returned' = patterns
    /\ lastOp' = "identifyPatterns"
    /\ lastArgs' = <<>>
    /\ minedRuns' = Min(2, minedRuns + 1)
    /\ UNCHANGED <<config, contextHistory, cleanupTimer, intervals, now, recorded,
                   cleanupRan, destroyed, synthVars, analyzerVars, promptVars, request, desktopVars>>

Destroy ==
    /\ IF cleanupTimer # Null
       THEN /\ intervals' = clearInterval(intervals, cleanupTimer)
            /\ cleanupTimer' = Null
       ELSE UNCHANGED <<intervals, cleanupTimer>>
    /\ destroyed' = TRUE
    /\ lastOp' = "destroy"
    /\ lastArgs' = <<>>
    /\ returned' = <<>>
    /\ minedRuns' = 0
    /\ UNCHANGED <<config, contextHistory, contextPatterns, now, recorded, cleanupRan,
                   synthVars, analyzerVars, promptVars, request, handedOut, desktopVars>>

\* an hour passes
AdvanceClock ==
    /\ now < MaxTime
    /\ now' = now + 1
    /\ UNCHANGED <<config, contextHistory, contextPatterns, cleanupTimer, intervals,
                   lastOp, lastArgs, returned, recorded, cleanupRan, destroyed, minedRuns,
                   synthVars, analyzerVars, promptVars, request, handedOut, desktopVars>>

-----------------------------------------------------------------------------
(* JavaScript strings and values *)

\* s.charAt(i - 1)
CharAt(s, i) == SubSeq(s, i, i)

CharsOf(s) == { CharAt(s, i) : i \in 1..Len(s) }

UpperCaseLetters == "ABCDEFGHIJKLMNOPQRSTUVWXYZ"
LowerCaseLetters == "abcdefghijklmnopqrstuvwxyz"
Digits == "0123456789"

UpperCaseSet == CharsOf(UpperCaseLetters)
\* \w
WordChars == CharsOf(UpperCaseLetters) \cup CharsOf(LowerCaseLetters) \cup CharsOf(Digits) \cup {"_"}
\* \s
WhitespaceChars == {" ", "\t", "\n", "\r", "\f"}

LowerChar(c) ==
    IF c \in UpperCaseSet
    THEN CharAt(LowerCaseLetters,
                CHOOSE i \in 1..Len(UpperCaseLetters) : CharAt(UpperCaseLetters, i) = c)
    ELSE c

\* parts[lo] + ... + parts[hi]
RECURSIVE ConcatRange(_, _, _)
ConcatRange(parts, lo, hi) ==
    IF lo > hi THEN ""
    ELSE IF lo = hi THEN parts[lo]
    ELSE LET mid == (lo + hi) \div 2
         IN  ConcatRange(parts, lo, mid) \o ConcatRange(parts, mid + 1, hi)

\* parts.join('')
Concat(parts) == ConcatRange(parts, 1, Len(parts))

\* s.toLowerCase()
toLowerCase(s) == Concat([i \in 1..Len(s) |-> LowerChar(CharAt(s, i))])

\* s.includes(searchString)
includes(s, searchString) ==
    \E i \in 0..(Len(s) - Len(searchString)) :
        SubSeq(s, i + 1, i + Len(searchString)) = searchString

\* s.substring(start, end), 0 <= start <= end
substring(s, start, end) ==
    IF start >= Len(s) THEN "" ELSE SubSeq(s, start + 1, Min(end, Len(s)))

\* A value of a field of additionalData: undefined, a string, or a number
\* (nothing checks the declared type at run time); value is String(v).
Undefined == [type |-> "undefined", value |-> ""]
StringValue(s) == [type |-> "string", value |-> s]
NumberValue(s) == [type |-> "number", value |-> s]

\* the truthiness of v
ToBoolean(v) ==
    \/ v.type = "string" /\ v.value # ""
    \/ v.type = "number" /\ v.value \notin {"0", "NaN"}

\* v || fallback, as a string
OrElse(v, fallback) == IF ToBoolean(v) THEN v.value ELSE fallback

\* the outcome of a call: a value returned or an error thrown
Return(value) == [threw |-> FALSE, value |-> value]
Throw(message) == [threw |-> TRUE, message |-> message]

\* v?.toLowerCase(): undefined for undefined, a TypeError for a non-string
OptionalToLowerCase(v, expression) ==
    CASE v.type = "undefined" -> Return(Undefined)
      [] v.type = "string"    -> Return(StringValue(toLowerCase(v.value)))
      [] OTHER -> Throw(expression \o "?.toLowerCase is not a function")

\* v.toLowerCase() on a truthy v
ToLowerCaseOf(v, expression) ==
    IF v.type = "string" THEN Return(toLowerCase(v.value))
    ELSE Throw(expression \o ".toLowerCase is not a function")

\* A regular expression is a sequence of atoms: a literal text taken once or
\* optionally, or a character class taken + or * times.
Literal(text) == [class |-> "literal", text |-> text, quantifier |-> "1"]
OptionalLiteral(text) == [class |-> "literal", text |-> text, quantifier |-> "?"]
Spaces(quantifier) == [class |-> "space", text |-> "", quantifier |-> quantifier]
Words(quantifier) == [class |-> "word", text |-> "", quantifier |-> quantifier]
AnyChars(quantifier) == [class |-> "any", text |-> "", quantifier |-> quantifier]

ClassHas(class, c) ==
    CASE class = "space" -> c \in WhitespaceChars
      [] class = "word"  -> c \in WordChars
      [] class = "any"   -> c \notin {"\n", "\r"}

\* the offsets at which a match of atoms that starts at offset i of s can end
RECURSIVE MatchEnds(_, _, _)
MatchEnds(atoms, s, i) ==
    IF atoms = <<>> THEN {i}
    ELSE LET atom == Head(atoms)
             taken ==
                IF atom.class = "literal"
                THEN (IF i + Len(atom.text) <= Len(s)
                         /\ SubSeq(s, i + 1, i + Len(atom.text)) = atom.text
                      THEN {i + Len(atom.text)} ELSE {})
                     \cup (IF atom.quantifier = "?" THEN {i} ELSE {})
                ELSE { j \in (i + (IF atom.quantifier = "+" THEN 1 ELSE 0))..Len(s) :
                         \A k \in (i + 1)..j : ClassHas(atom.class, CharAt(s, k)) }
         IN  UNION { MatchEnds(Tail(atoms), s, j) : j \in taken }

\* regex.test(s)
test(atoms, s) == \E i \in 0..Len(s) : MatchEnds(atoms, s, i) # {}

-----------------------------------------------------------------------------
(* ContextAnalyzer *)

ideIndicators ==
    <<"visual studio", "vscode", "intellij", "pycharm", "webstorm",
      "sublime", "atom", "vim", "emacs", "code", "jetbrains">>
browserIndicators == <<"chrome", "firefox", "safari", "edge", "opera", "browser">>
designIndicators ==
    <<"figma", "sketch", "photoshop", "illustrator", "indesign", "xd", "canva", "affinity">>
documentIndicators ==
    <<"word", "docs", "pages", "writer", "document", "notion", "obsidian", "typora",
      "markdown">>
terminalIndicators ==
    <<"terminal", "iterm", "cmd", "powershell", "bash", "zsh", "command", "console">>

\* indicators.some(indicator => title.includes(indicator) || app.includes(indicator))
SomeIndicator(indicators, title, app) ==
    \E n \in DOMAIN indicators : includes(title, indicators[n]) \/ includes(app, indicators[n])

\* an IDE test that looks at the window title alone
isIdeEnvironmentTitleOnly(title, app) ==
    \E n \in DOMAIN ideIndicators : includes(title, ideIndicators[n])

isIdeEnvironment(title, app) == SomeIndicator(ideIndicators, title, app)
isBrowserEnvironment(title, app) == SomeIndicator(browserIndicators, title, app)
isDesignEnvironment(title, app) == SomeIndicator(designIndicators, title, app)
isDocumentEnvironment(title, app) == SomeIndicator(documentIndicators, title, app)
isTerminalEnvironment(title, app) == SomeIndicator(terminalIndicators, title, app)

\* A sub-confidence is kept in tenths.
EnvironmentResult(type, confidence, indicator) ==
    [type |-> type, confidence |-> confidence, indicators |-> <<indicator>>]

\* categorizeEnvironment(screenshots, additionalData); an absent additionalData
\* reads as one whose fields are all undefined
categorizeEnvironment(additionalData) ==
    IF ToBoolean(additionalData.windowTitle) \/ ToBoolean(additionalData.activeApplication)
    THEN LET lowerTitle == OptionalToLowerCase(additionalData.windowTitle,
                                               "additionalData.windowTitle")
             lowerApp   == OptionalToLowerCase(additionalData.activeApplication,
                                               "additionalData.activeApplication")
         IN  IF lowerTitle.threw THEN lowerTitle
             ELSE IF lowerApp.threw THEN lowerApp
             ELSE LET title == OrElse(lowerTitle.value, "")
                      app   == OrElse(lowerApp.value, "")
                  IN  IF isIdeEnvironment(title, app)
                      THEN Return(EnvironmentResult("ide", 4, "IDE application detected"))
                      ELSE IF isBrowserEnvironment(title, app)
                      THEN Return(EnvironmentResult("browser", 3, "Browser application detected"))
                      ELSE IF isDesignEnvironment(title, app)
                      THEN Return(EnvironmentResult("design", 4, "Design application detected"))
                      ELSE IF isDocumentEnvironment(title, app)
                      THEN Return(EnvironmentResult("document", 3, "Document application detected"))
                      ELSE IF isTerminalEnvironment(title, app)
                      THEN Return(EnvironmentResult("terminal", 4, "Terminal application detected"))
                      ELSE Return(EnvironmentResult("unknown", 1, "Unable to determine environment"))
    ELSE Return(EnvironmentResult("unknown", 1, "Unable to determine environment"))

codeIndicators ==
    << <<Literal("function"), Spaces("+"), Words("+"), Spaces("*"), Literal("(")>>,
       <<Literal("class"), Spaces("+"), Words("+")>>,
       <<Literal("import"), Spaces("+"), AnyChars("*"), Literal("from")>>,
       <<Literal("const"), Spaces("+"), Words("+"), Spaces("*"), Literal("=")>>,
       <<Literal("def"), Spaces("+"), Words("+"), Spaces("*"), Literal("(")>>,
       <<Literal("public"), Spaces("+"), Literal("class")>>,
       <<Literal("<"), OptionalLiteral("/"), Words("+"), Literal(">")>>,
       <<Literal("{"), Spaces("*"), Words("+"), Literal(":"), Spaces("*"), Words("+")>> >>

\* isCodeContent(text)
isCodeContent(text) == \E n \in DOMAIN codeIndicators : test(codeIndicators[n], text)

\* [.!?]
SentenceEnds == {".", "!", "?"}

\* isWritingContent(text): text.split(/[.!?]+/) has one piece more than text has
\* runs of sentence ends, and piece.trim().split(/\s+/) has one entry for each
\* run of other characters in the piece, and one entry if it has none
isWritingContent(text) ==
    LET isEnd(i)   == CharAt(text, i) \in SentenceEnds
        isWord(i)  == CharAt(text, i) \notin SentenceEnds \cup WhitespaceChars
        endRuns    == { i \in 1..Len(text) : isEnd(i) /\ (i = 1 \/ ~isEnd(i - 1)) }
        wordStarts == { i \in 1..Len(text) : isWord(i) /\ (i = 1 \/ ~isWord(i - 1)) }
        \* the word starts that are the first of their piece
        firstWords == { i \in wordStarts :
                          \A j \in wordStarts : j < i => \E k \in (j + 1)..(i - 1) : isEnd(k) }
        sentences  == Cardinality(endRuns) + 1
        words      == Cardinality(wordStarts) + (sentences - Cardinality(firstWords))
    IN  \* 8 < words / sentences < 30
        words > 8 * sentences /\ words < 30 * sentences

ActivityResult(type, confidence, indicator) ==
    [type |-> type, confidence |-> confidence, indicators |-> <<indicator>>]

\* categorizeUserActivity(screenshots, additionalData)
categorizeUserActivity(additionalData) ==
    IF ToBoolean(additionalData.selectedText)
    THEN LET selectedText == ToLowerCaseOf(additionalData.selectedText,
                                           "additionalData.selectedText")
         IN  IF selectedText.threw THEN selectedText
             ELSE IF isCodeContent(selectedText.value)
             THEN Return(ActivityResult("coding", 3, "Code content selected"))
             ELSE IF isWritingContent(selectedText.value)
             THEN Return(ActivityResult("writing", 2, "Writing content detected"))
             ELSE Return(ActivityResult("idle", 1, "Activity unclear"))
    ELSE Return(ActivityResult("idle", 1, "Activity unclear"))

\* extractApplicationContext(screenshots, additionalData)
extractApplicationContext(additionalData) ==
    [activeApplication |-> OrElse(additionalData.activeApplication, "unknown"),
     windowTitle |-> OrElse(additionalData.windowTitle, ""),
     selectedText |-> additionalData.selectedText,
     recentActions |-> <<>>]

\* analyzeContent(screenshots)
analyzeContent ==
    [textContent |-> <<>>, codeSnippets |-> <<>>, uiElements |-> <<>>,
     mediaElements |-> <<>>, structuralElements |-> <<>>, semanticTags |-> <<>>]

\* analyzeUserIntent(screenshots, additionalData); test() reads String(selectedText)
analyzeUserIntent(additionalData) ==
    [primaryIntent |-> "unknown", secondaryIntents |-> <<>>,
     urgencyLevel |-> "medium", complexityLevel |-> "moderate",
     suggestedActions |->
        IF ToBoolean(additionalData.selectedText)
           /\ isCodeContent(additionalData.selectedText.value)
        THEN << [action |-> "analyze-code", priority |-> 1, prerequisites |-> <<>>] >>
        ELSE <<>>,
     contextDependencies |-> <<>>]

\* calculateContextConfidence(analysisResults), in tenths
calculateContextConfidence(analysisResults) == 7

\* determineContextSources(screenshots, additionalData)
determineContextSources(additionalData) ==
    <<"screenshot">>
    \o (IF ToBoolean(additionalData.windowTitle) THEN <<"window-title">> ELSE <<>>)
    \o (IF ToBoolean(additionalData.activeApplication) THEN <<"application-state">> ELSE <<>>)
    \o (IF ToBoolean(additionalData.selectedText) THEN <<"user-input">> ELSE <<>>)

\* Promise.all(promises) over promises that are settled when it is called: the
\* first rejection in array order, or the array of values
PromiseAll(promises) ==
    IF \E n \in DOMAIN promises : promises[n].threw
    THEN promises[CHOOSE n \in DOMAIN promises :
                     /\ promises[n].threw
                     /\ \A m \in DOMAIN promises : promises[m].threw => n <= m]
    ELSE Return([n \in DOMAIN promises |-> promises[n].value])

\* an error handed on as it is
AnalysisErrorBare(errorMessage) == errorMessage

\* `Context analysis failed: ${errorMessage}`
AnalysisError(errorMessage) == "Context analysis failed: " \o errorMessage

\* the five sub-classifications of analyzeScreenContext
SubClassifications(additionalData) ==
    << categorizeEnvironment(additionalData),
       categorizeUserActivity(additionalData),
       Return(extractApplicationContext(additionalData)),
       Return(analyzeContent),
       Return(analyzeUserIntent(additionalData)) >>

\* analyzeScreenContext(screenshots, additionalData) with generateId() = contextId
\* and Date.now() = timestamp: the context returned or the error thrown
analyzeScreenContext(additionalData, contextId, timestamp) ==
    LET settled == PromiseAll(SubClassifications(additionalData))
    IN  IF settled.threw
        THEN Throw(AnalysisError(settled.message))
        ELSE LET environmentType == settled.value[1]
                 activityType == settled.value[2]
                 applicationContext == settled.value[3]
                 contentAnalysis == settled.value[4]
                 intentAnalysis == settled.value[5]
                 confidence == calculateContextConfidence(settled.value)
             IN  Return([id |-> contextId,
                         timestamp |-> timestamp,
                         environment |-> environmentType.type,
                         activity |-> activityType.type,
                         confidence |-> confidence,
                         applicationDetails |-> applicationContext,
                         visibleContent |-> contentAnalysis,
                         userIntent |-> intentAnalysis,
                         contextSources |-> determineContextSources(additionalData)])

\* the value of activeContext while it is null
NoContext == <<>>

AnalyzeScreenContext(additionalData) ==
    /\ analyses < MaxAnalyses
    /\ LET outcome == analyzeScreenContext(additionalData,
                                           "ctx" \o ToString(analyses + 1), now)
       IN  IF outcome.threw
           THEN /\ lastOp' = "analyzeScreenContext threw"
                /\ returned' = [name |-> "Error", message |-> outcome.message]
                /\ UNCHANGED activeContext
           ELSE /\ lastOp' = "analyzeScreenContext"
                /\ returned' = outcome.value
                /\ activeContext' = outcome.value
    /\ analyses' = analyses + 1
    /\ lastArgs' = <<additionalData>>
    /\ UNCHANGED <<memoryVars, synthVars, promptVars, request, handedOut, desktopVars>>

\* getActiveContext()
GetActiveContext ==
    /\ lastOp' = "getActiveContext"
    /\ returned' = activeContext
    /\ lastArgs' = <<>>
    /\ UNCHANGED <<memoryVars, synthVars, analyzerVars, promptVars, request, handedOut, desktopVars>>

\* new ContextAnalyzer(config): the state after the constructor
AnalyzerInit ==
    /\ activeContext = NoContext
    /\ analyses = 0

-----------------------------------------------------------------------------
(* ContextSynthesizer: the domain-knowledge table *)

EnvironmentType == {"ide", "browser", "design", "document", "terminal", "mixed", "unknown"}
ActivityType == {"coding", "writing", "research", "design", "communication", "learning",
                 "debugging", "idle"}

\* a domain table without the terminal row
determineDomainNoTerminal(environment, activity) ==
    IF environment = "ide" \/ activity = "coding" THEN "development"
    ELSE IF environment = "browser" /\ activity = "research" THEN "research"
    ELSE IF environment = "design" THEN "design"
    ELSE IF environment = "document" \/ activity = "writing" THEN "writing"
    ELSE "general"

\* determineDomain(environment, activity)
determineDomain(environment, activity) ==
    IF environment = "ide" \/ activity = "coding" THEN "development"
    ELSE IF environment = "browser" /\ activity = "research" THEN "research"
    ELSE IF environment = "design" THEN "design"
    ELSE IF environment = "document" \/ activity = "writing" THEN "writing"
    ELSE IF environment = "terminal" THEN "system-administration"
    ELSE "general"

\* A DomainContext holds references to its four arrays; an array is kept as the
\* sequence of its entries' names.

\* the record and the arrays initializeDomainKnowledge() builds
developmentDomain ==
    [domain |-> "development", expertise |-> "intermediate",
     tools |-> "development.tools", conventions |-> "development.conventions",
     patterns |-> "development.patterns", resources |-> "development.resources"]

developmentArrays ==
    [ref \in {"development.tools", "development.conventions",
              "development.patterns", "development.resources"} |->
        CASE ref = "development.tools"       -> <<"Git", "NPM">>
          [] ref = "development.conventions" -> <<"naming", "structure">>
          [] ref = "development.patterns"    -> <<"MVC", "Component-based">>
          [] ref = "development.resources"   -> <<"MDN", "Stack Overflow">>]

\* getDefaultDomainContext(domain): a record over four newly allocated arrays
getDefaultDomainContext(domain) ==
    [domain |-> domain, expertise |-> "intermediate",
     tools |-> "new.tools", conventions |-> "new.conventions",
     patterns |-> "new.patterns", resources |-> "new.resources"]

newArrays ==
    [ref \in {"new.tools", "new.conventions", "new.patterns", "new.resources"} |-> <<>>]

\* the heap h extended with the arrays of g
Allocate(h, g) == [ref \in DOMAIN h \cup DOMAIN g |-> IF ref \in DOMAIN g THEN g[ref] ELSE h[ref]]

\* array.push(entry) on the array that ref points to
Push(h, ref, entry) == [h EXCEPT ![ref] = Append(@, entry)]

\* the value of a DomainContext: every array reference replaced by the array
Deref(record, h) ==
    [domain |-> record.domain, expertise |-> record.expertise,
     tools |-> h[record.tools], conventions |-> h[record.conventions],
     patterns |-> h[record.patterns], resources |-> h[record.resources]]

\* customizeDomainContext(base, environment, activity): { ...base } copies the
\* fields of base, so customized refers to the arrays of base; the result is
\* the heap after the two push calls (customized itself has the fields of base)
customizeDomainContext(h, base, environment, activity) ==
    LET customized == base
        h1 == IF environment = "ide" THEN Push(h, customized.tools, "IDE") ELSE h
        h2 == IF activity = "debugging"
              THEN Push(h1, customized.patterns, "debugging-workflow") ELSE h1
    IN  h2

\* buildDomainContext(environment, activity): the returned record and the heap
buildDomainContext(knowledge, h, environment, activity) ==
    LET domain == determineDomain(environment, activity)
        known  == domain \in DOMAIN knowledge
        baseDomainContext == IF known THEN knowledge[domain]
                             ELSE getDefaultDomainContext(domain)
        h0 == IF known THEN h ELSE Allocate(h, newArrays)
    IN  [context |-> baseDomainContext,
         heap |-> customizeDomainContext(h0, baseDomainContext, environment, activity)]

-----------------------------------------------------------------------------
(* ContextSynthesizer: the synthesis *)

\* parts.join(separator)
JoinWith(parts, separator) ==
    Concat([i \in 1..(2 * Len(parts) - 1) |->
               IF i % 2 = 1 THEN parts[(i + 1) \div 2] ELSE separator])

\* generateSituationalDescription(context, weights); confidence is in tenths
generateSituationalDescription(context) ==
    LET application == context.applicationDetails.activeApplication
        windowTitle == context.applicationDetails.windowTitle
        cleanTitle  == substring(windowTitle, 0, 50)
        confidenceLevel == IF context.confidence > 8 THEN "high"
                           ELSE IF context.confidence > 5 THEN "moderate"
                           ELSE "low"
        parts ==
            << "User is working in a " \o context.environment \o " environment" >>
            \o (IF context.activity # "idle"
                THEN << "currently engaged in " \o context.activity >> ELSE <<>>)
            \o (IF application # "unknown" THEN << "using " \o application >> ELSE <<>>)
            \o (IF windowTitle # ""
                THEN << "with focus on \"" \o cleanTitle
                        \o (IF Len(cleanTitle) >= 50 THEN "..." ELSE "") \o "\"" >>
                ELSE <<>>)
            \o (IF Len(context.visibleContent.codeSnippets) > 0
                THEN << "with code content visible" >> ELSE <<>>)
            \o << "(" \o confidenceLevel \o " confidence)" >>
    IN  JoinWith(parts, " ")

\* calculateHistoricalRelevance(current, historical), times ScoreScale
calculateHistoricalRelevance(current, historical) ==
    LET environment == IF current.environment = historical.environment
                       THEN (3 * ScoreScale) \div 10 ELSE 0
        activity    == IF current.activity = historical.activity
                       THEN (25 * ScoreScale) \div 100 ELSE 0
        application == IF current.applicationDetails.activeApplication
                          = historical.applicationDetails.activeApplication
                       THEN (2 * ScoreScale) \div 10 ELSE 0
        timeDiff    == current.timestamp - historical.timestamp
        \* timeWeight * HoursPerDay
        timeWeight  == Max(0, HoursPerDay - timeDiff)
        recency     == (timeWeight * 25 * ScoreScale) \div (HoursPerDay * 100)
    IN  environment + activity + application + recency

\* the default of maxResults in selectRelevantHistory
DefaultMaxResults == 5

\* selectRelevantHistory(currentContext, history, maxResults)
selectRelevantHistory(currentContext, history, maxResults) ==
    IF Len(history) = 0 THEN <<>>
    ELSE LET scoredHistory == [i \in DOMAIN history |->
                                  [snapshot |-> history[i],
                                   relevanceScore |->
                                      calculateHistoricalRelevance(currentContext,
                                                                   history[i].context)]]
             top == Slice(Sort(scoredHistory), 0, maxResults)
         IN  [i \in DOMAIN top |-> top[i].snapshot]

\* An Action keeps estimatedImpact in tenths.

\* the absent userIntent argument of synthesizeContext
NoIntent == [suggestedActions |-> <<>>]

\* generateDomainActions(context, domainContext)
generateDomainActions(context, domainContext) ==
    IF domainContext.domain = "development" /\ context.activity = "coding"
    THEN << [id |-> "code_review", type |-> "development",
             description |-> "Review and optimize current code",
             priority |-> 2, dependencies |-> <<>>, estimatedImpact |-> 8] >>
    ELSE <<>>

\* generateEnvironmentActions(context)
generateEnvironmentActions(context) ==
    IF context.environment = "ide"
    THEN << [id |-> "analyze_code_context", type |-> "environment",
             description |-> "Analyze visible code for suggestions",
             priority |-> 1, dependencies |-> <<>>, estimatedImpact |-> 7] >>
    ELSE <<>>

\* the comparator of generateContextualActions
CompareActions(a, b) == (b.priority * b.estimatedImpact) - (a.priority * a.estimatedImpact)

\* Array.prototype.sort(CompareActions), which is stable
ActionInsert(sorted, item) ==
    LET later == { j \in DOMAIN sorted : CompareActions(sorted[j], item) > 0 }
        pos   == IF later = {} THEN Len(sorted) + 1
                 ELSE CHOOSE j \in later : \A k \in later : j <= k
    IN  SubSeq(sorted, 1, pos - 1) \o <<item>> \o SubSeq(sorted, pos, Len(sorted))

RECURSIVE SortActions(_)
SortActions(arr) ==
    IF arr = <<>> THEN <<>>
    ELSE ActionInsert(SortActions(SubSeq(arr, 1, Len(arr) - 1)), arr[Len(arr)])

\* generateContextualActions(context, domainContext, userIntent)
generateContextualActions(context, domainContext, userIntent) ==
    LET intentActions ==
            [index \in DOMAIN userIntent.suggestedActions |->
                [id |-> "intent_action_" \o ToString(index - 1), type |-> "user-intent",
                 description |-> userIntent.suggestedActions[index].action,
                 priority |-> userIntent.suggestedActions[index].priority,
                 dependencies |-> userIntent.suggestedActions[index].prerequisites,
                 estimatedImpact |-> 7]]
    IN  SortActions(intentActions \o generateDomainActions(context, domainContext)
                    \o generateEnvironmentActions(context))

\* A quality metric q is kept as the integer q * QualityScale.
QualityScale == 100 * 100

MinutesPerHour == 60
\* maxAge of calculateTimeliness, in minutes
MaxAgeMinutes == 5

\* calculateCompleteness(context, domainContext)
calculateCompleteness(context, domainContext) ==
    (40 * QualityScale) \div 100
    + (IF context.environment # "unknown" THEN (15 * QualityScale) \div 100 ELSE 0)
    + (IF context.activity # "idle" THEN (15 * QualityScale) \div 100 ELSE 0)
    + (IF context.applicationDetails.activeApplication # "unknown"
       THEN QualityScale \div 10 ELSE 0)
    + (IF context.applicationDetails.windowTitle # "" THEN QualityScale \div 10 ELSE 0)
    + (IF Len(domainContext.tools) > 0 THEN QualityScale \div 10 ELSE 0)

\* calculateRelevance(context, domainContext, history)
calculateRelevance(context, domainContext, history) ==
    (50 * QualityScale) \div 100
    + (IF domainContext.domain # "general" THEN (2 * QualityScale) \div 10 ELSE 0)
    + (IF Len(history) > 0
       THEN Min((2 * QualityScale) \div 10, (Len(history) * 5 * QualityScale) \div 100)
       ELSE 0)
    + (context.confidence * QualityScale) \div 100

\* calculateTimeliness(context) at Date.now() = t
calculateTimeliness(context, t) ==
    LET age == t - context.timestamp
    IN  Max(0, QualityScale - (age * MinutesPerHour * QualityScale) \div MaxAgeMinutes)

\* calculateActionability(context, domainContext)
calculateActionability(context, domainContext) ==
    Min(QualityScale,
        (3 * QualityScale) \div 10
        + (Len(context.userIntent.suggestedActions) * QualityScale) \div 10
        + (Len(domainContext.tools) * 5 * QualityScale) \div 100
        + (IF context.environment # "unknown" THEN (2 * QualityScale) \div 10 ELSE 0))

\* a clamp that lets every value through
Unclamped(limit, value) == value

\* Math.min(1, value) of the returned metrics
Clamp(limit, value) == Min(limit, value)

\* assessContextQuality(context, domainContext, relevantHistory) at Date.now() = t
assessContextQuality(context, domainContext, relevantHistory, t) ==
    LET accuracy == (context.confidence * 8 * QualityScale) \div 100
                    + (Len(context.contextSources) * 2 * QualityScale) \div 50
        completeness  == calculateCompleteness(context, domainContext)
        relevance     == calculateRelevance(context, domainContext, relevantHistory)
        timeliness    == calculateTimeliness(context, t)
        actionability == calculateActionability(context, domainContext)
        overallScore  == (accuracy * 25 + completeness * 20 + relevance * 20
                          + timeliness * 15 + actionability * 20) \div 100
    IN  [accuracy      |-> Clamp(QualityScale, accuracy),
         completeness  |-> Clamp(QualityScale, completeness),
         relevance     |-> Clamp(QualityScale, relevance),
         timeliness    |-> Clamp(QualityScale, timeliness),
         actionability |-> Clamp(QualityScale, actionability),
         overallScore  |-> Clamp(QualityScale, overallScore)]

\* synthesizeContext(currentScreen, history, userIntent) at Date.now() = now
SynthesizeContext(currentScreen, history, userIntent) ==
    /\ synthCalls < MaxSynth
    /\ LET built == buildDomainContext(domainKnowledge, heap,
                                       currentScreen.environment, currentScreen.activity)
           domainContext == Deref(built.context, built.heap)
           relevantHistory == selectRelevantHistory(currentScreen, history, DefaultMaxResults)
       IN  /\ heap' = [ref \in DOMAIN heap |-> built.heap[ref]]
           /\ returned' =
                [id |-> "engineered_" \o ToString(synthCalls + 1),
                 timestamp |-> now,
                 situationalContext |-> generateSituationalDescription(currentScreen),
                 relevantHistory |-> relevantHistory,
                 domainSpecificInfo |-> domainContext,
                 suggestedActions |->
                    generateContextualActions(currentScreen, domainContext, userIntent),
                 contextQuality |->
                    assessContextQuality(currentScreen, domainContext, relevantHistory, now),
                 synthesisMetadata |-> [sourcesUsed |-> currentScreen.contextSources]]
    /\ synthCalls' = synthCalls + 1
    /\ lastOp' = "synthesizeContext"
    /\ lastArgs' = <<currentScreen, history, userIntent>>
    /\ UNCHANGED <<domainKnowledge, memoryVars, analyzerVars, promptVars, request, handedOut, desktopVars>>

-----------------------------------------------------------------------------
(* PromptEngineer *)

PromptObjective ==
    {"code-generation", "problem-solving", "analysis", "explanation", "optimization",
     "debugging", "research", "creative", "planning"}

\* A template keeps metadata.successRate in hundredths; a compatibility score s
\* is kept as the integer s * PromptScale.
PromptScale == 10 * 100

\* the templates of initializeDefaultTemplates()
codeAnalysisTemplate ==
    [id |-> "code-analysis",
     objective |-> "analysis",
     domain |-> "development",
     template |->
        "You are an expert code analyst. Analyze the following context:\n\n"
        \o "Context: {{CONTEXT}}\nUser Query: {{USER_QUERY}}\n"
        \o "Environment: {{ENVIRONMENT}}\nAvailable Tools: {{TOOLS}}\n\n"
        \o "Please provide:\n1. A clear analysis of the situation\n"
        \o "2. Specific recommendations\n3. Implementation steps\n"
        \o "4. Potential issues to consider\n\nFocus on practical, actionable advice.",
     constraints |-> << [type |-> "length", constraint |-> "moderate", priority |-> 1],
                        [type |-> "style", constraint |-> "technical", priority |-> 2] >>,
     metadata |-> [usageCount |-> 0, successRate |-> 80]]

problemSolvingTemplate ==
    [id |-> "problem-solving",
     objective |-> "problem-solving",
     domain |-> "general",
     template |->
        "You are a helpful problem-solving assistant. Here's the situation:\n\n"
        \o "Context: {{CONTEXT}}\nProblem: {{USER_QUERY}}\nDomain: {{DOMAIN}}\n"
        \o "Expertise Level: {{EXPERTISE_LEVEL}}\n\n"
        \o "Historical Context: {{HISTORICAL_CONTEXT}}\n"
        \o "Suggested Actions: {{SUGGESTED_ACTIONS}}\n\n"
        \o "Please provide:\n1. Problem analysis\n2. Step-by-step solution\n"
        \o "3. Alternative approaches\n4. Expected outcomes\n\n"
        \o "Tailor your response to the user's expertise level.",
     constraints |-> << [type |-> "length", constraint |-> "detailed", priority |-> 1],
                        [type |-> "style", constraint |-> "conversational", priority |-> 2] >>,
     metadata |-> [usageCount |-> 0, successRate |-> 75]]

\* createFallbackTemplate(objective)
createFallbackTemplate(objective) ==
    [id |-> "fallback",
     objective |-> objective,
     domain |-> "general",
     template |-> "Please help with: {{USER_QUERY}}\n\nContext: {{CONTEXT}}",
     constraints |-> <<>>,
     metadata |-> [usageCount |-> 0, successRate |-> 60]]

\* The Map templates is kept as the sequence of its values in insertion order;
\* their ids differ.

\* templates.has(id)
HasTemplate(registry, id) == \E n \in DOMAIN registry : registry[n].id = id

\* templates.get(id) of a registered id
GetTemplate(registry, id) == registry[CHOOSE n \in DOMAIN registry : registry[n].id = id]

\* getGeneralTemplate(objective)
getGeneralTemplate(registry, objective) ==
    IF HasTemplate(registry, "problem-solving")
    THEN GetTemplate(registry, "problem-solving")
    ELSE createFallbackTemplate(objective)

\* scoreTemplateCompatibility(template, context): successRate || 0.5 reads a
\* successRate of 0 as 0.5
scoreTemplateCompatibility(template, context) ==
    (IF template.domain = context.domainSpecificInfo.domain THEN PromptScale \div 2 ELSE 0)
    + ((IF template.metadata.successRate # 0 THEN template.metadata.successRate ELSE 50)
       * 3 * PromptScale) \div 1000
    + Min(PromptScale \div 5, (template.metadata.usageCount * PromptScale) \div 100)

\* the comparator of selectOptimalTemplate
CompareTemplates(a, b) == b.score - a.score

\* Array.prototype.sort(CompareTemplates), which is stable
TemplateInsert(sorted, item) ==
    LET later == { j \in DOMAIN sorted : CompareTemplates(sorted[j], item) > 0 }
        pos   == IF later = {} THEN Len(sorted) + 1
                 ELSE CHOOSE j \in later : \A k \in later : j <= k
    IN  SubSeq(sorted, 1, pos - 1) \o <<item>> \o SubSeq(sorted, pos, Len(sorted))

RECURSIVE SortTemplates(_)
SortTemplates(arr) ==
    IF arr = <<>> THEN <<>>
    ELSE TemplateInsert(SortTemplates(SubSeq(arr, 1, Len(arr) - 1)), arr[Len(arr)])

\* selectOptimalTemplate(engineeredContext, objective)
selectOptimalTemplate(registry, engineeredContext, objective) ==
    LET candidateTemplates == SelectSeq(registry, LAMBDA t : t.objective = objective)
        scoredTemplates ==
            [n \in DOMAIN candidateTemplates |->
                [template |-> candidateTemplates[n],
                 score |-> scoreTemplateCompatibility(candidateTemplates[n],
                                                      engineeredContext)]]
    IN  IF Len(candidateTemplates) = 0
        THEN getGeneralTemplate(registry, objective)
        ELSE SortTemplates(scoredTemplates)[1].template

\* the first offset of s at which searchValue starts, from is the least offset
FirstIndexOf(s, searchValue, from) ==
    LET starts == { i \in (from + 1)..(Len(s) - Len(searchValue) + 1) :
                      SubSeq(s, i, i + Len(searchValue) - 1) = searchValue }
    IN  IF starts = {} THEN 0 ELSE CHOOSE i \in starts : \A j \in starts : i <= j

\* the text a replacement string stands for: $$ is $, $& the match, $` the text
\* before the match, $' the text after it; the pattern has no groups, so that
\* any other $ stands for itself
RECURSIVE ExpandReplacement(_, _, _, _)
ExpandReplacement(replacement, matched, before, after) ==
    LET i == FirstIndexOf(replacement, "$", 0)
    IN  IF i = 0 THEN replacement
        ELSE LET next == IF i < Len(replacement) THEN CharAt(replacement, i + 1) ELSE ""
                 special == next \in {"$", "&", "`", "'"}
                 inserted == CASE next = "$" -> "$"
                               [] next = "&" -> matched
                               [] next = "`" -> before
                               [] next = "'" -> after
                               [] OTHER -> "$"
                 rest == SubSeq(replacement, (IF special THEN i + 2 ELSE i + 1),
                                Len(replacement))
             IN  SubSeq(replacement, 1, i - 1) \o inserted
                 \o ExpandReplacement(rest, matched, before, after)

\* what s.replace(new RegExp(searchValue, 'g'), replacement) leaves of s after
\* offset from; searchValue is a placeholder, which the pattern matches literally
RECURSIVE ReplaceFrom(_, _, _, _)
ReplaceFrom(s, from, searchValue, replacement) ==
    LET i == FirstIndexOf(s, searchValue, from)
        end == i + Len(searchValue) - 1
    IN  IF i = 0 THEN SubSeq(s, from + 1, Len(s))
        ELSE SubSeq(s, from + 1, i - 1)
             \o ExpandReplacement(replacement, searchValue,
                                  SubSeq(s, 1, i - 1), SubSeq(s, end + 1, Len(s)))
             \o ReplaceFrom(s, end, searchValue, replacement)

\* s.replace(new RegExp(searchValue, 'g'), replacement)
ReplaceAll(s, searchValue, replacement) == ReplaceFrom(s, 0, searchValue, replacement)

\* summarizeHistoricalContext(history)
summarizeHistoricalContext(history) ==
    IF Len(history) = 0 THEN "No relevant history available"
    ELSE "Based on " \o ToString(Len(history)) \o " previous similar contexts"

\* the variables of adaptPromptToContext, in the order of Object.entries
PromptVariables(engineeredContext, userQuery) ==
    << <<"USER_QUERY", userQuery>>,
       <<"CONTEXT", engineeredContext.situationalContext>>,
       <<"DOMAIN", engineeredContext.domainSpecificInfo.domain>>,
       <<"ENVIRONMENT", IF includes(engineeredContext.situationalContext, "ide")
                        THEN "development" ELSE "general">>,
       <<"EXPERTISE_LEVEL", engineeredContext.domainSpecificInfo.expertise>>,
       <<"SUGGESTED_ACTIONS",
         JoinWith([n \in DOMAIN engineeredContext.suggestedActions |->
                      engineeredContext.suggestedActions[n].description], ", ")>>,
       <<"HISTORICAL_CONTEXT", summarizeHistoricalContext(engineeredContext.relevantHistory)>>,
       <<"TOOLS", JoinWith(engineeredContext.domainSpecificInfo.tools, ", ")>> >>

\* the prompt after the first n variables have been replaced
RECURSIVE Substituted(_, _, _)
Substituted(prompt, variables, n) ==
    IF n = 0 THEN prompt
    ELSE ReplaceAll(Substituted(prompt, variables, n - 1),
                    "{{" \o variables[n][1] \o "}}", variables[n][2])

\* adaptPromptToContext(template, engineeredContext, userQuery)
adaptPromptToContext(template, engineeredContext, userQuery) ==
    LET variables == PromptVariables(engineeredContext, userQuery)
    IN  Substituted(template.template, variables, Len(variables))

\* removeRedundancy(prompt): prompt.replace(/\b(\w+)\s+\1\b/gi, '$1'). A match is
\* a whole word, whitespace, and the same word again, whatever its case; matches
\* are taken from left to right and do not overlap.
removeRedundancy(prompt) ==
    LET n == Len(prompt)
        isWord(i)  == CharAt(prompt, i) \in WordChars
        isSpace(i) == CharAt(prompt, i) \in WhitespaceChars
        wordStarts == { i \in 1..n : isWord(i) /\ (i = 1 \/ ~isWord(i - 1)) }
        wordEnd(i) == CHOOSE j \in i..n :
                         (j = n \/ ~isWord(j + 1)) /\ \A k \in i..j : isWord(k)
        \* where the whitespace after the word at i ends
        nextStart(i) == CHOOSE q \in (wordEnd(i) + 1)..(n + 1) :
                           /\ q = n + 1 \/ ~isSpace(q)
                           /\ \A k \in (wordEnd(i) + 1)..(q - 1) : isSpace(k)
        word(i) == toLowerCase(SubSeq(prompt, i, wordEnd(i)))
        repeated == { i \in wordStarts :
                        LET q == nextStart(i)
                        IN  q > wordEnd(i) + 1 /\ q \in wordStarts /\ word(q) = word(i) }
        \* the repeated words in a row right before the word at i
        before(i) == { p \in repeated :
                         p < i /\ \A q \in wordStarts : (p < q /\ q < i) => q \in repeated }
        matches == { i \in repeated : Cardinality(before(i)) % 2 = 0 }
        removed == UNION { (wordEnd(i) + 1)..wordEnd(nextStart(i)) : i \in matches }
    IN  Concat([k \in 1..n |-> IF k \in removed THEN "" ELSE CharAt(prompt, k)])

\* enhanceClarity(prompt): prompt.replace(/\s+/g, ' ').trim()
enhanceClarity(prompt) ==
    LET isSpace(i) == CharAt(prompt, i) \in WhitespaceChars
        replaced == Concat([k \in 1..Len(prompt) |->
                              IF ~isSpace(k) THEN CharAt(prompt, k)
                              ELSE IF k = 1 \/ ~isSpace(k - 1) THEN " "
                              ELSE ""])
        first == IF replaced # "" /\ CharAt(replaced, 1) = " " THEN 2 ELSE 1
        last  == IF replaced # "" /\ CharAt(replaced, Len(replaced)) = " "
                 THEN Len(replaced) - 1 ELSE Len(replaced)
    IN  IF first > last THEN "" ELSE SubSeq(replaced, first, last)

\* improveSpecificity(prompt)
improveSpecificity(prompt) == prompt

\* the length above which a concise prompt is cut
ConciseLimit == 500

\* a length constraint applied whatever the template declares
applyLengthConstraintsAlways(prompt, template) ==
    IF Len(prompt) > ConciseLimit
    THEN substring(prompt, 0, ConciseLimit) \o "..."
    ELSE prompt

\* applyLengthConstraints(prompt, template)
applyLengthConstraints(prompt, template) ==
    LET lengths == SelectSeq(template.constraints, LAMBDA c : c.type = "length")
    IN  IF lengths # <<>> /\ lengths[1].constraint = "concise" /\ Len(prompt) > ConciseLimit
        THEN substring(prompt, 0, ConciseLimit) \o "..."
        ELSE prompt

\* getOptimizationStrategies(original, optimized)
getOptimizationStrategies(original, optimized) ==
    (IF Len(optimized) < Len(original) THEN <<"length-reduction">> ELSE <<>>)
    \o (IF optimized # original THEN <<"clarity-enhancement">> ELSE <<>>)

\* A score of the prompt is a fraction [num, den] of whole numbers, so that the
\* sums below are exact.
Fraction(num, den) == [num |-> num, den |-> den]

\* the number of sentences of calculateClarityScore:
\* prompt.split(/[.!?]+/).filter(s => s.trim().length > 0).length, the pieces
\* between runs of '.', '!' and '?' that hold more than white space
SentenceCount(prompt) ==
    LET len == Len(prompt)
        ends == { i \in 1..len : CharAt(prompt, i) \in {".", "!", "?"} }
        blank == { i \in 1..len : CharAt(prompt, i) \in {" ", "\n", "\t", "\r"} }
        text == (1..len) \ (ends \cup blank)
        starts == {0} \cup ends
        NextEnd(p) == IF \E e \in ends : e > p
                      THEN CHOOSE e \in ends : e > p /\ \A f \in ends : f > p => e <= f
                      ELSE len + 1
    IN  Cardinality({ p \in starts : \E i \in text : p < i /\ i < NextEnd(p) })

\* calculateClarityScore(prompt), for a prompt that has a sentence:
\* max(0, min(1, 1 - (prompt.length / sentences - 20) / 100))
calculateClarityScore(prompt) ==
    LET sentences == SentenceCount(prompt)
    IN  Fraction(Max(0, Min(100 * sentences, 120 * sentences - Len(prompt))), 100 * sentences)

\* the terms of `terms` the prompt contains, whatever their case
TermMatches(prompt, terms) ==
    Cardinality({ n \in DOMAIN terms : includes(toLowerCase(prompt), terms[n]) })

\* calculateSpecificityScore(prompt): min(1, matches / 3)
calculateSpecificityScore(prompt) ==
    Fraction(Min(3, TermMatches(prompt, <<"specific", "detailed", "step-by-step", "example",
                                         "precisely">>)), 3)

\* calculateActionabilityScore(prompt): min(1, matches / 3)
calculateActionabilityScore(prompt) ==
    Fraction(Min(3, TermMatches(prompt, <<"provide", "analyze", "create", "implement",
                                         "solve", "explain">>)), 3)

\* the success rate calculatePromptConfidence uses: successRate || 0.7 reads a
\* successRate of 0 as 0.7
RateOrDefault(successRate) == IF successRate # 0 THEN successRate ELSE 70

\* min(1, 0.4 x overall + 0.3 x rate + 0.3 x (clarity + specificity +
\* actionability) / 3), as a fraction over 3000 x the clarity's denominator;
\* overall is in 1 / QualityScale, rate in hundredths
WeightedConfidence(overallScore, rate, optimization) ==
    LET den == 3000 * optimization.clarityScore.den
        sum == (12 * overallScore * optimization.clarityScore.den) \div 100
               + 9 * rate * optimization.clarityScore.den
               + 300 * optimization.clarityScore.num
               + 100 * optimization.specificityScore.num * optimization.clarityScore.den
               + 100 * optimization.actionabilityScore.num * optimization.clarityScore.den
    IN  Fraction(Min(den, sum), den)

\* calculatePromptConfidence(engineeredContext, template, optimization)
calculatePromptConfidence(engineeredContext, template, optimization) ==
    WeightedConfidence(engineeredContext.contextQuality.overallScore,
                       RateOrDefault(template.metadata.successRate), optimization)
\* optimizePrompt(prompt, template)
optimizePrompt(prompt, template) ==
    LET optimizedPrompt ==
            applyLengthConstraints(
                improveSpecificity(enhanceClarity(removeRedundancy(prompt))), template)
    IN  [originalLength |-> Len(prompt),
         optimizedLength |-> Len(optimizedPrompt),
         clarityScore |-> calculateClarityScore(optimizedPrompt),
         specificityScore |-> calculateSpecificityScore(optimizedPrompt),
         actionabilityScore |-> calculateActionabilityScore(optimizedPrompt),
         optimizationStrategy |-> getOptimizationStrategies(prompt, optimizedPrompt),
         optimizedPrompt |-> optimizedPrompt]

\* generateFallbackPrompts(template, engineeredContext, userQuery)
generateFallbackPrompts(template, engineeredContext, userQuery) ==
    << "Help with: " \o userQuery,
       userQuery,
       "As an expert assistant, please "
       \o (IF template.objective = "analysis" THEN "analyze" ELSE "help with")
       \o ": " \o userQuery >>

\* extractUsedContextElements(context)
extractUsedContextElements(context) ==
    <<"situational-context">>
    \o (IF context.domainSpecificInfo.domain # "" THEN <<"domain-info">> ELSE <<>>)
    \o (IF Len(context.relevantHistory) > 0 THEN <<"historical-context">> ELSE <<>>)
    \o (IF Len(context.suggestedActions) > 0 THEN <<"suggested-actions">> ELSE <<>>)

\* generateContextualPrompt(engineeredContext, userQuery, objective), the
\* objective given by the caller; of the result, id, timestamp and
\* expectedOutcome are left out
generateContextualPrompt(registry, engineeredContext, userQuery, objective) ==
    LET template == selectOptimalTemplate(registry, engineeredContext, objective)
        adaptedPrompt == adaptPromptToContext(template, engineeredContext, userQuery)
        optimization == optimizePrompt(adaptedPrompt, template)
    IN  [prompt |-> optimization.optimizedPrompt,
         confidenceScore |-> calculatePromptConfidence(engineeredContext, template,
                                                       optimization),
         contextSummary |->
            engineeredContext.domainSpecificInfo.domain \o " context with "
            \o ToString(Len(engineeredContext.relevantHistory)) \o " historical references",
         objective |-> objective,
         fallbackPrompts |-> generateFallbackPrompts(template, engineeredContext, userQuery),
         metadata |-> [templateUsed |-> template.id,
                       contextElementsUsed |-> extractUsedContextElements(engineeredContext),
                       tokens |-> (Len(optimization.optimizedPrompt) + 3) \div 4],
         optimization |-> optimization]

\* generateContextualPrompt called with the arguments of the request
GenerateContextualPrompt ==
    /\ lastOp' = "generateContextualPrompt"
    /\ returned' = generateContextualPrompt(templates, request.engineeredContext,
                                            request.userQuery, request.objective)
    /\ lastArgs' = <<request.engineeredContext, request.userQuery, request.objective>>
    /\ UNCHANGED <<memoryVars, synthVars, analyzerVars, promptVars, request, handedOut, desktopVars>>

\* new PromptEngineer(config): the state after the constructor
PromptInit ==
    templates = <<codeAnalysisTemplate, problemSolvingTemplate>>

-----------------------------------------------------------------------------
(* WindowHelper: the main window and its size *)

\* this.mainWindow === null
NoWindow == <<>>

\* the height createWindow() gives the bar
InitialHeight == 80

\* decreaseWindowSize's minimum sizes
MinResizeWidth == 300
MinResizeHeight == 200

\* createWindow(): 60% of the work area's width, a slim bar at the top. The
\* copies WindowHelper keeps of the bounds (windowPosition, windowSize,
\* currentX, currentY) are left out: no resize reads them
createWindow(area) ==
    [x |-> (area.width * 2) \div 10, y |-> 0,
     width |-> (area.width * 6) \div 10, height |-> InitialHeight]

\* increaseWindowSize(): the bounds after the call. Sizes are computed in
\* tenths, positions in twentieths, and floored as setBounds gets them
increaseWindowSize(bounds, area) ==
    LET newWidth10 == Min(bounds.width * 11, area.width * 9)
        newHeight10 == Min(bounds.height * 11, area.height * 9)
    IN  [x |-> Max(0, (20 * bounds.x - (newWidth10 - 10 * bounds.width)) \div 20),
         y |-> Max(0, (20 * bounds.y - (newHeight10 - 10 * bounds.height)) \div 20),
         width |-> newWidth10 \div 10,
         height |-> newHeight10 \div 10]

\* decreaseWindowSize(): the bounds after the call
decreaseWindowSize(bounds) ==
    LET newWidth10 == Max(bounds.width * 9, MinResizeWidth * 10)
        newHeight10 == Max(bounds.height * 9, MinResizeHeight * 10)
    IN  [x |-> (20 * bounds.x + (10 * bounds.width - newWidth10)) \div 20,
         y |-> (20 * bounds.y + (10 * bounds.height - newHeight10)) \div 20,
         width |-> newWidth10 \div 10,
         height |-> newHeight10 \div 10]

\* setWindowDimensions(width, height), for whole numbers: the bounds after the call
setWindowDimensions(bounds, area, debugged, width, height) ==
    LET maxAllowedWidth == IF debugged THEN (area.width * 75) \div 100
                           ELSE (area.width * 5) \div 10
        newWidth == Min(width + 32, maxAllowedWidth)
    IN  [x |-> Min(Max(bounds.x, 0), area.width - newWidth),
         y |-> bounds.y,
         width |-> newWidth,
         height |-> height]

\* the window before createWindow()
WindowIdle ==
    /\ mainWindow = NoWindow
    /\ workArea = [width |-> 1920, height |-> 1080]
    /\ resized = <<>>
    /\ resizes = 0

-----------------------------------------------------------------------------
(* LLMHelper and ProcessingHelper: the current model and Speed Mode *)

\* LLMHelper.currentModel after the constructor
DefaultModel == "claude-3-5-sonnet-20241022"

\* the model enableSpeedMode() selects
SpeedModel == "claude-3-5-haiku-20241022"

\* the models of the Cmd/Ctrl+4 gestures
DoublePressModel == "claude-opus-4-20250514"
SinglePressModel == "claude-sonnet-4-20250514"

\* the models of Cmd/Ctrl+5, +7, +3 and +Shift+H
ShortcutModels ==
    {"claude-3-5-sonnet-20241022", "claude-3-7-sonnet-20250219", "claude-3-opus-20240229",
     "claude-3-5-haiku-20241022"}

\* ProcessingHelper.setModel(model): the LLMHelper's model, and the
\* "model-changed" message if there is a window
setModel(model) ==
    /\ currentModel' = model
    /\ notified' = IF mainWindow # NoWindow THEN model ELSE notified

\* enableSpeedMode()
enableSpeedMode ==
    /\ setModel(SpeedModel)
    /\ speedMode' = TRUE

\* disableSpeedMode()
disableSpeedMode ==
    /\ setModel("claude-3-5-sonnet-20241022")
    /\ speedMode' = FALSE

\* a model shortcut: Cmd/Ctrl+5, +7, +3, +Shift+H
SelectModel(model) ==
    /\ setModel(model)
    /\ gesture' = "none"
    /\ toggles' = 0
    /\ UNCHANGED <<lastCmd4Time, timers, clock, speedMode, beforeToggles>>
    /\ UNCHANGED <<engineVars, windowVars, processingVars>>

\* toggleSpeedMode(): F9, Cmd/Ctrl+Shift+S
ToggleSpeedMode ==
    /\ IF includes(currentModel, "haiku") THEN disableSpeedMode ELSE enableSpeedMode
    /\ toggles' = Min(2, toggles + 1)
    /\ beforeToggles' = IF toggles = 0 THEN currentModel ELSE beforeToggles
    /\ gesture' = "none"
    /\ UNCHANGED <<lastCmd4Time, timers, clock>>
    /\ UNCHANGED <<engineVars, windowVars, processingVars>>

-----------------------------------------------------------------------------
(* ShortcutManager: the Cmd/Ctrl+4 gesture *)

\* the window for a double press, in milliseconds
cmd4TimerThreshold == 500

\* the clock advances in steps of TickMs from StartTime; Date.now() is far
\* above the threshold when the application starts
TickMs == cmd4TimerThreshold \div 2
StartTime == 2 * cmd4TimerThreshold
MaxTicks == 5          \* the clock runs over StartTime .. StartTime + MaxTicks * TickMs
MaxTimers == 2         \* pending setTimeout callbacks at one time

\* the Cmd/Ctrl+4 handler
PressCmd4 ==
    /\ IF clock - lastCmd4Time < cmd4TimerThreshold
       THEN /\ setModel(DoublePressModel)
            /\ lastCmd4Time' = 0
            /\ gesture' = "double"
            /\ toggles' = 0
            /\ UNCHANGED timers
       ELSE /\ Len(timers) < MaxTimers
            /\ lastCmd4Time' = clock
            /\ timers' = Append(timers, clock + cmd4TimerThreshold)
            /\ gesture' = "single"
            /\ UNCHANGED <<currentModel, notified, toggles>>
    /\ UNCHANGED <<clock, speedMode, beforeToggles>>
    /\ UNCHANGED <<engineVars, windowVars, processingVars>>

\* the setTimeout callback of a single press, run when it is due
TimerFires ==
    /\ timers # <<>>
    /\ Head(timers) <= clock
    /\ timers' = Tail(timers)
    /\ IF clock - lastCmd4Time >= cmd4TimerThreshold
       THEN /\ setModel(SinglePressModel)
            /\ toggles' = 0
       ELSE UNCHANGED <<currentModel, notified, toggles>>
    /\ UNCHANGED <<lastCmd4Time, clock, gesture, speedMode, beforeToggles>>
    /\ UNCHANGED <<engineVars, windowVars, processingVars>>

\* TickMs pass; a callback that is due runs before the clock moves on
Tick ==
    /\ clock < StartTime + MaxTicks * TickMs
    /\ IF timers = <<>> THEN TRUE ELSE Head(timers) > clock
    /\ clock' = clock + TickMs
    /\ UNCHANGED <<lastCmd4Time, timers, gesture, currentModel, speedMode, notified,
                   toggles, beforeToggles>>
    /\ UNCHANGED <<engineVars, windowVars, processingVars>>

\* the ShortcutManager and the LLMHelper after their constructors
ShortcutIdle ==
    /\ lastCmd4Time = 0
    /\ timers = <<>>
    /\ clock = StartTime
    /\ gesture = "none"
    /\ currentModel = DefaultModel
    /\ speedMode = FALSE
    /\ notified = ""
    /\ toggles = 0
    /\ beforeToggles = DefaultModel

-----------------------------------------------------------------------------
(* WindowHelper: the resize shortcuts *)

MaxResizes == 4        \* resize calls in one run

\* Cmd/Ctrl+Shift+Up
IncreaseWindowSize ==
    /\ resizes < MaxResizes
    /\ mainWindow # NoWindow
    /\ mainWindow' = increaseWindowSize(mainWindow, workArea)
    /\ resized' = [call |-> "increaseWindowSize", width |-> mainWindow.width,
                   height |-> mainWindow.height]
    /\ resizes' = resizes + 1
    /\ UNCHANGED <<workArea, engineVars, shortcutVars, processingVars>>

\* Cmd/Ctrl+Shift+Down
DecreaseWindowSize ==
    /\ resizes < MaxResizes
    /\ mainWindow # NoWindow
    /\ mainWindow' = decreaseWindowSize(mainWindow)
    /\ resized' = [call |-> "decreaseWindowSize", width |-> mainWindow.width,
                   height |-> mainWindow.height]
    /\ resizes' = resizes + 1
    /\ UNCHANGED <<workArea, engineVars, shortcutVars, processingVars>>

\* the renderer reports the size of its content
SetWindowDimensions(width, height) ==
    /\ resizes < MaxResizes
    /\ mainWindow # NoWindow
    /\ mainWindow' = setWindowDimensions(mainWindow, workArea, hasDebugged, width, height)
    /\ resized' = [call |-> "setWindowDimensions", width |-> mainWindow.width,
                   height |-> mainWindow.height]
    /\ resizes' = resizes + 1
    /\ UNCHANGED <<workArea, engineVars, shortcutVars, processingVars>>

-----------------------------------------------------------------------------
(* ProcessingHelper: processScreenshots and cancelOngoingRequests *)

MaxRuns == 2           \* processScreenshots invocations in one run

\* String.prototype.endsWith
endsWith(s, suffix) ==
    Len(s) >= Len(suffix) /\ SubSeq(s, Len(s) - Len(suffix) + 1, Len(s)) = suffix

\* the last entry of the queue is an audio file
isAudioPath(lastPath) == endsWith(lastPath, ".mp3") \/ endsWith(lastPath, ".wav")

\* the awaits of processScreenshots that wait for the backend
BackendAwaits == {"audio", "extract", "solve", "generate", "regenerate", "debug"}

\* an invocation of processScreenshots: the branch it took, the await it is
\* suspended at ("done" once it has returned), the events it has sent to the
\* window, the backend calls it has issued, its setView calls, and, for a run
\* that cancelOngoingRequests() found waiting for the backend, the number of
\* events it had sent by then (-1 otherwise) and whether it has stored problem
\* info since
Run(branch, pc, events, views) ==
    [branch |-> branch, pc |-> pc, events |-> events,
     calls |-> IF pc \in BackendAwaits THEN 1 ELSE 0, setViews |-> views,
     cancelledAt |-> -1, storedAfterCancel |-> FALSE]

\* the step after extractProblemFromImages resolved, without the PROBLEM_EXTRACTED message
onProblemExtractedSilent == [pc |-> "solve", events |-> <<>>, store |-> TRUE]

\* extractProblemFromImages resolved: PROBLEM_EXTRACTED, setProblemInfo, then
\* generateSolution
onProblemExtracted == [pc |-> "solve", events |-> <<"PROBLEM_EXTRACTED">>, store |-> TRUE]

\* what a run does when the promise it awaits settles, up to its next await
continuation(pc, outcome) ==
    LET step(next, events) == [pc |-> next, events |-> events, store |-> FALSE]
    IN  CASE pc = "audio" /\ outcome = "resolved" ->
                [pc |-> "done", events |-> <<"PROBLEM_EXTRACTED">>, store |-> TRUE]
          [] pc = "audio" /\ outcome = "rejected" -> step("done", <<"INITIAL_SOLUTION_ERROR">>)
          [] pc = "extract" /\ outcome = "resolved" -> onProblemExtracted
          [] pc = "extract" /\ outcome = "rejected" -> step("done", <<"INITIAL_SOLUTION_ERROR">>)
          [] pc = "solve" /\ outcome = "resolved" -> step("done", <<"SOLUTION_SUCCESS">>)
          [] pc = "solve" /\ outcome = "rejected" -> step("done", <<"INITIAL_SOLUTION_ERROR">>)
          [] pc = "cache" /\ outcome = "cached" -> step("debug", <<>>)
          [] pc = "cache" /\ outcome = "nothing cached" -> step("generate", <<>>)
          [] pc = "generate" /\ outcome = "resolved" -> step("debug", <<>>)
          [] pc = "generate" /\ outcome = "rejected" -> step("regenerate", <<>>)
          [] pc = "regenerate" /\ outcome = "resolved" -> step("debug", <<>>)
          [] pc = "regenerate" /\ outcome = "rejected" -> step("done", <<"DEBUG_ERROR">>)
          [] pc = "debug" /\ outcome = "resolved" ->
                step("done", <<"DEBUG_SUCCESS", "SOLUTION_SUCCESS">>)
          [] pc = "debug" /\ outcome = "resolved without solution" ->
                step("done", <<"DEBUG_SUCCESS">>)
          [] pc = "debug" /\ outcome = "rejected" -> step("done", <<"DEBUG_ERROR">>)

\* the ways the promise awaited at pc settles
Outcomes(pc) ==
    CASE pc = "cache" -> {"cached", "nothing cached"}
      [] pc = "debug" -> {"resolved", "resolved without solution", "rejected"}
      [] pc = "done" -> {}
      [] OTHER -> {"resolved", "rejected"}

\* processScreenshots() up to its first await (F3, Cmd/Ctrl+Enter)
ProcessScreenshots ==
    /\ Len(runs) < MaxRuns
    /\ LET started(run) == runs' = Append(runs, run)
       IN  IF mainWindow = NoWindow
           THEN /\ started(Run("no window", "done", <<>>, 0))
                /\ UNCHANGED <<view, currentProcessingAbortController,
                               currentExtraProcessingAbortController, controllers>>
           ELSE IF view = "queue"
           THEN IF screenshotQueue = <<>>
                THEN /\ started(Run("queue, empty", "done", <<"NO_SCREENSHOTS">>, 0))
                     /\ UNCHANGED <<view, currentProcessingAbortController,
                                    currentExtraProcessingAbortController, controllers>>
                ELSE IF isAudioPath(screenshotQueue[Len(screenshotQueue)])
                THEN /\ started(Run("queue, audio", "audio", <<"INITIAL_START">>, 1))
                     /\ view' = "solutions"
                     /\ UNCHANGED <<currentProcessingAbortController,
                                    currentExtraProcessingAbortController, controllers>>
                ELSE /\ started(Run("queue", "extract", <<"INITIAL_START">>, 1))
                     /\ view' = "solutions"
                     /\ controllers' = controllers + 1
                     /\ currentProcessingAbortController' = controllers + 1
                     /\ UNCHANGED currentExtraProcessingAbortController
           ELSE IF extraScreenshotQueue = <<>>
                THEN /\ started(Run("debug, empty", "done", <<"NO_SCREENSHOTS">>, 0))
                     /\ UNCHANGED <<view, currentProcessingAbortController,
                                    currentExtraProcessingAbortController, controllers>>
                ELSE IF problemInfo = 0
                THEN \* throw new Error("No problem info available"), caught at once
                     /\ started(Run("debug", "done", <<"DEBUG_START", "DEBUG_ERROR">>, 0))
                     /\ controllers' = controllers + 1
                     /\ currentExtraProcessingAbortController' = 0
                     /\ UNCHANGED <<view, currentProcessingAbortController>>
                ELSE /\ started(Run("debug", "cache", <<"DEBUG_START">>, 0))
                     /\ controllers' = controllers + 1
                     /\ currentExtraProcessingAbortController' = controllers + 1
                     /\ UNCHANGED <<view, currentProcessingAbortController>>
    /\ UNCHANGED <<screenshotQueue, extraScreenshotQueue, problemInfo, hasDebugged, aborted,
                   cancelled>>
    /\ UNCHANGED <<engineVars, shortcutVars, windowVars>>

\* the promise run r awaits settles, and the run goes on to its next await or
\* to its end. No call is given the AbortController's signal, so a call
\* settles the same whether or not abort() has been called
Settle(r, outcome) ==
    /\ r \in DOMAIN runs
    /\ outcome \in Outcomes(runs[r].pc)
    /\ LET run == runs[r]
           then == continuation(run.pc, outcome)
           finished == then.pc = "done"
       IN  /\ runs' = [runs EXCEPT ![r] =
                        [run EXCEPT !.pc = then.pc,
                                    !.events = run.events \o then.events,
                                    !.calls = IF then.pc \in BackendAwaits THEN @ + 1 ELSE @,
                                    !.storedAfterCancel = @ \/ (then.store /\ run.cancelledAt >= 0)]]
           /\ problemInfo' = IF then.store THEN r ELSE problemInfo
           /\ hasDebugged' = IF run.pc = "debug" /\ outcome # "rejected" THEN TRUE
                             ELSE hasDebugged
           \* finally
           /\ currentProcessingAbortController' =
                IF finished /\ run.branch = "queue" THEN 0
                ELSE currentProcessingAbortController
           /\ currentExtraProcessingAbortController' =
                IF finished /\ run.branch = "debug" THEN 0
                ELSE currentExtraProcessingAbortController
    /\ UNCHANGED <<view, screenshotQueue, extraScreenshotQueue, controllers, aborted, cancelled>>
    /\ UNCHANGED <<engineVars, shortcutVars, windowVars>>

\* cancelOngoingRequests() (F8)
CancelOngoingRequests ==
    /\ aborted' = aborted \cup ({currentProcessingAbortController,
                                 currentExtraProcessingAbortController} \ {0})
    /\ currentProcessingAbortController' = 0
    /\ currentExtraProcessingAbortController' = 0
    /\ hasDebugged' = FALSE
    /\ cancelled' = TRUE
    /\ runs' = [r \in DOMAIN runs |->
                  IF runs[r].pc \in BackendAwaits /\ runs[r].cancelledAt < 0
                  THEN [runs[r] EXCEPT !.cancelledAt = Len(runs[r].events)]
                  ELSE runs[r]]
    /\ UNCHANGED <<view, screenshotQueue, extraScreenshotQueue, problemInfo, controllers>>
    /\ UNCHANGED <<engineVars, shortcutVars, windowVars>>

\* F5: the other view
ToggleView ==
    /\ view' = IF view = "queue" THEN "solutions" ELSE "queue"
    /\ UNCHANGED <<screenshotQueue, extraScreenshotQueue, problemInfo, hasDebugged,
                   currentProcessingAbortController, currentExtraProcessingAbortController,
                   controllers, aborted, runs, cancelled>>
    /\ UNCHANGED <<engineVars, shortcutVars, windowVars>>

\* the ProcessingHelper and the AppState it uses, after their constructors
ProcessingIdle ==
    /\ view = "queue"
    /\ screenshotQueue = <<>>
    /\ extraScreenshotQueue = <<>>
    /\ problemInfo = 0
    /\ hasDebugged = FALSE
    /\ currentProcessingAbortController = 0
    /\ currentExtraProcessingAbortController = 0
    /\ controllers = 0
    /\ aborted = {}
    /\ runs = <<>>
    /\ cancelled = FALSE

\* the desktop application before it is used
DesktopIdle == ShortcutIdle /\ WindowIdle /\ ProcessingIdle

-----------------------------------------------------------------------------
(* Initial states and specifications *)

\* new ContextSynthesizer(): the state after the constructor
SynthInit ==
    /\ domainKnowledge = [d \in {"development"} |-> developmentDomain]
    /\ heap = developmentArrays
    /\ synthCalls = 0

\* no call has been prepared
NoRequest == <<>>

\* the engines beside the ContextMemory, after their constructors, and the
\* desktop application before it is used
EnginesInit ==
    /\ SynthInit
    /\ DesktopIdle
    /\ AnalyzerInit
    /\ PromptInit
    /\ DesktopIdle
    /\ request = NoRequest

\* new ContextMemory(config): the state after the constructor
Init ==
    /\ config \in [maxHistorySize : 0..MaxHistorySize,
                   patternDetectionThreshold : Thresholds,
                   contextRetentionPeriod : RetentionPeriods]
    /\ contextHistory = <<>>
    /\ contextPatterns = EmptyMap
    /\ cleanupTimer = TimerHandle
    /\ intervals = {TimerHandle}
    /\ now = 0
    /\ lastOp = "constructor"
    /\ lastArgs = <<>>
    /\ returned = <<>>
    /\ recorded = <<>>
    /\ cleanupRan = FALSE
    /\ destroyed = FALSE
    /\ minedRuns = 0
    /\ handedOut = NoHandle
    /\ EnginesInit

\* the pattern map after recording snapshots one by one
RECURSIVE PatternsAfter(_)
PatternsAfter(snapshots) ==
    IF snapshots = <<>> THEN EmptyMap
    ELSE updatePatterns(PatternsAfter(SubSeq(snapshots, 1, Len(snapshots) - 1)),
                        snapshots[Len(snapshots)])

\* the sequences over S of length at most n
SeqsUpTo(S, n) == UNION { [1..k -> S] : k \in 0..n }

\* a ContextMemory that has recorded up to maxHistorySize snapshots, any of them
InitQuery ==
    /\ config \in [maxHistorySize : {MaxHistorySize},
                   patternDetectionThreshold : Thresholds,
                   contextRetentionPeriod : RetentionPeriods]
    /\ contextHistory \in SeqsUpTo({ Snapshot(c) : c \in ContextsUpTo(MaxTime) }, MaxHistorySize)
    /\ contextPatterns = PatternsAfter(contextHistory)
    /\ recorded = contextHistory
    /\ cleanupTimer = TimerHandle
    /\ intervals = {TimerHandle}
    /\ now = MaxTime
    /\ lastOp = "addContextSnapshot"
    /\ lastArgs = <<>>
    /\ returned = <<>>
    /\ cleanupRan = FALSE
    /\ destroyed = FALSE
    /\ minedRuns = 0
    /\ handedOut = NoHandle
    /\ EnginesInit

GetRelevantContext(currentContext, maxResults) ==
    /\ returned' = getRelevantContext(contextHistory, currentContext, maxResults)
    /\ lastOp' = "getRelevantContext"
    /\ lastArgs' = <<currentContext, maxResults>>
    /\ UNCHANGED <<memoryVars, synthVars, analyzerVars, promptVars, request, handedOut, desktopVars>>

NextQuery ==
    \E currentContext \in ContextsAt(now), maxResults \in 0..MaxResults :
        GetRelevantContext(currentContext, maxResults)

SpecQuery == InitQuery /\ [][NextQuery]_vars

\* a ContextMemory nobody records to, at time t
MemoryIdle(t) ==
    /\ config = [maxHistorySize |-> MaxHistorySize,
                 patternDetectionThreshold |-> 2,
                 contextRetentionPeriod |-> 1]
    /\ contextHistory = <<>>
    /\ contextPatterns = EmptyMap
    /\ recorded = <<>>
    /\ cleanupTimer = TimerHandle
    /\ intervals = {TimerHandle}
    /\ now = t
    /\ lastOp = "constructor"
    /\ lastArgs = <<>>
    /\ returned = <<>>
    /\ cleanupRan = FALSE
    /\ destroyed = FALSE
    /\ minedRuns = 0
    /\ handedOut = NoHandle

\* a ScreenContext with every field the engines read
FullScreenContext(id, ts, kind, confidence, application, windowTitle, sources, suggested) ==
    [id |-> id, timestamp |-> ts, environment |-> kind[1], activity |-> kind[2],
     confidence |-> confidence,
     applicationDetails |-> [activeApplication |-> application, windowTitle |-> windowTitle,
                             selectedText |-> Undefined, recentActions |-> <<>>],
     visibleContent |-> analyzeContent,
     userIntent |-> [primaryIntent |-> "unknown", secondaryIntents |-> <<>>,
                     urgencyLevel |-> "medium", complexityLevel |-> "moderate",
                     suggestedActions |->
                        [n \in 1..suggested |->
                            [action |-> "analyze-code", priority |-> 1,
                             prerequisites |-> <<>>]],
                     contextDependencies |-> <<>>],
     contextSources |-> [n \in 1..sources |-> "screenshot"]]

\* the Synthesizer under study: every (environment, activity) pair, at three
\* confidences, with no history
InitSynth == MemoryIdle(0) /\ EnginesInit

SynthConfidences == {3, 7, 9}

NextSynth ==
    \E environment \in EnvironmentType, activity \in ActivityType,
       confidence \in SynthConfidences :
        SynthesizeContext(
            FullScreenContext("ctx1", now, <<environment, activity>>, confidence,
                              "unknown", "", 1, 0),
            <<>>, NoIntent)

SpecSynth == InitSynth /\ [][NextSynth]_vars

\* the Analyzer under study
WindowTitleValues == {Undefined, StringValue("main.ts - VSCode"), NumberValue("42")}
ApplicationValues == {Undefined, StringValue("Google Chrome")}
SelectedTextValues ==
    {Undefined, StringValue("const total = 1"),
     StringValue("We met on Monday to plan the next release of our product"),
     NumberValue("42")}

AdditionalData ==
    [windowTitle : WindowTitleValues, activeApplication : ApplicationValues,
     selectedText : SelectedTextValues]

InitAnalyzer == MemoryIdle(0) /\ EnginesInit

NextAnalyzer ==
    \/ \E additionalData \in AdditionalData : AnalyzeScreenContext(additionalData)
    \/ GetActiveContext

SpecAnalyzer == InitAnalyzer /\ [][NextAnalyzer]_vars

\* the environment classification under study: the window titles and the
\* application names of the request
WindowTitles ==
    {"", "main.ts - VSCode", "Stack Overflow - Google Chrome", "Unicode tables",
     "Landing page - Figma", "Meeting notes - Google Docs", "zsh", "Inbox",
     "vscode docs - Mozilla Firefox", "Sketch of the command console", "FIXD", "Q3 budget"}
ApplicationNames ==
    {"", "Code", "Google Chrome", "Figma", "Microsoft Word", "iTerm2", "Slack",
     "IntelliJ IDEA", "Safari", "Finder"}

OptionalString(strings) == {Undefined} \cup { StringValue(s) : s \in strings }

InitEnvironment ==
    /\ MemoryIdle(0)
    /\ SynthInit
    /\ DesktopIdle
    /\ AnalyzerInit
    /\ PromptInit
    /\ request \in [windowTitle : OptionalString(WindowTitles),
                    activeApplication : OptionalString(ApplicationNames),
                    selectedText : {Undefined}]

NextEnvironment == AnalyzeScreenContext(request)

SpecEnvironment == InitEnvironment /\ [][NextEnvironment]_vars

\* the quality metrics and the history selection under study: contexts of any
\* confidence, stamped before, at and after the time of the synthesis
QualityKinds == { <<"unknown", "idle">>, <<"ide", "coding">>, <<"terminal", "debugging">> }
QualityConfidences == {0, 10}
QualityApplications == { <<"unknown", "">>, <<"Code", "main.ts">> }
SourceCounts == {1, 6}
SuggestedCounts == {0, 8}

QualityScreens ==
    { FullScreenContext("current", ts, kind, confidence, application[1], application[2],
                        sources, suggested) :
        ts \in 0..MaxTime, kind \in QualityKinds, confidence \in QualityConfidences,
        application \in QualityApplications, sources \in SourceCounts,
        suggested \in SuggestedCounts }

\* histories of no, one and more than DefaultMaxResults snapshots
QualityHistories ==
    { <<>>,
      << Snapshot(ScreenContext("h1", 0, <<"ide", "coding">>)) >>,
      [n \in 1..(DefaultMaxResults + 1) |->
          Snapshot(ScreenContext("h" \o ToString(n), n % (MaxTime + 1),
                                 IF n % 2 = 0 THEN <<"ide", "coding">>
                                 ELSE <<"design", "design">>))] }

InitQuality ==
    /\ MemoryIdle(1)
    /\ SynthInit
    /\ DesktopIdle
    /\ AnalyzerInit
    /\ PromptInit
    /\ request \in [additionalData : [windowTitle : {Undefined, StringValue("main.ts - VSCode")},
                                      activeApplication : {Undefined},
                                      selectedText : {Undefined}],
                    currentScreen : QualityScreens,
                    history : QualityHistories]

NextQuality ==
    \/ AnalyzeScreenContext(request.additionalData)
    \/ SynthesizeContext(request.currentScreen, request.history, NoIntent)

SpecQuality == InitQuality /\ [][NextQuality]_vars

\* the prompt generation under study: the engineer as constructed
EngineeredContextOf(situationalContext, domain, tools, descriptions, history, overallScore) ==
    [situationalContext |-> situationalContext,
     contextQuality |-> [overallScore |-> overallScore],
     relevantHistory |-> history,
     domainSpecificInfo |-> [domain |-> domain, expertise |-> "intermediate",
                             tools |-> tools],
     suggestedActions |-> [n \in DOMAIN descriptions |-> [description |-> descriptions[n]]]]

EngineeredContexts ==
    { EngineeredContextOf("ide coding session", "development", <<"Git", "NPM", "IDE">>,
                          <<"Review and optimize current code">>, <<>>, 9200),
      EngineeredContextOf("User is working in a terminal environment currently engaged in "
                          \o "debugging (high confidence)",
                          "system-administration", <<>>, <<>>,
                          << Snapshot(ScreenContext("h1", 0, <<"ide", "coding">>)) >>,
                          5500) }

UserQueries ==
    {"fix bug", "", "fix the the bug", "what is $& in a replacement",
     "why does {{name}} stay in my page", "costs $5", "explain {{CONTEXT}}"}

InitPrompt ==
    /\ MemoryIdle(0)
    /\ SynthInit
    /\ DesktopIdle
    /\ AnalyzerInit
    /\ PromptInit
    /\ request \in [engineeredContext : EngineeredContexts, userQuery : UserQueries,
                    objective : PromptObjective]

NextPrompt == GenerateContextualPrompt

SpecPrompt == InitPrompt /\ [][NextPrompt]_vars

\* the template selection under study: any registry of up to MaxTemplates
\* templates for one objective
TemplateSuccessRates == {0, 40, 80}
TemplateUsageCounts == {0, 50}

CandidateTemplate(id, domain, successRate, usageCount) ==
    [id |-> id,
     objective |-> "analysis",
     domain |-> domain,
     template |-> "Analyze: {{USER_QUERY}}\nContext: {{CONTEXT}}",
     constraints |-> <<>>,
     metadata |-> [usageCount |-> usageCount, successRate |-> successRate]]

\* the registries of k templates
Registries(k) ==
    { [n \in 1..k |-> CandidateTemplate("t" \o ToString(n), choice[n][1], choice[n][2],
                                        choice[n][3])] :
        choice \in [1..k -> {"development", "general"} \X TemplateSuccessRates
                            \X TemplateUsageCounts] }

InitSelection ==
    /\ MemoryIdle(0)
    /\ SynthInit
    /\ DesktopIdle
    /\ AnalyzerInit
    /\ templates \in UNION { Registries(k) : k \in 1..MaxTemplates }
    /\ request \in [engineeredContext : EngineeredContexts, userQuery : {"fix bug"},
                    objective : {"analysis", "debugging"}]

SpecSelection == InitSelection /\ [][NextPrompt]_vars

\* the length constraint under study: one template, its constraints any of
\* ConstraintLists, and queries that bring the prompt to about ConciseLimit
ConstraintLists ==
    { <<>>,
      << [type |-> "length", constraint |-> "concise", priority |-> 1] >>,
      << [type |-> "length", constraint |-> "moderate", priority |-> 1] >>,
      << [type |-> "length", constraint |-> "detailed", priority |-> 1],
         [type |-> "style", constraint |-> "technical", priority |-> 2] >>,
      << [type |-> "style", constraint |-> "concise", priority |-> 1] >>,
      << [type |-> "style", constraint |-> "technical", priority |-> 1],
         [type |-> "length", constraint |-> "concise", priority |-> 2] >> }

ConstrainedTemplate(constraints) ==
    [id |-> "constrained",
     objective |-> "analysis",
     domain |-> "general",
     template |-> "Please help with: {{USER_QUERY}}\n\nContext: {{CONTEXT}}",
     constraints |-> constraints,
     metadata |-> [usageCount |-> 0, successRate |-> 60]]

\* s, n times
Repeat(s, n) == Concat([i \in 1..n |-> s])

\* the length of the adapted prompt of ConstrainedTemplate beside the query
FrameLength == Len("Please help with: \n\nContext: ctx")

\* the length of the adapted prompt in the example of a cut
ExampleLength == ConciseLimit + 100

LongQueries ==
    { Repeat("x", ConciseLimit - FrameLength + fill) : fill \in (-MaxFill)..MaxFill }
    \cup { Repeat("x", ExampleLength - FrameLength),
           Repeat("ab  cd ", ExampleLength \div 7),
           Repeat("very ", ExampleLength \div 5),
           "fix bug" }

InitLength ==
    /\ MemoryIdle(0)
    /\ SynthInit
    /\ DesktopIdle
    /\ AnalyzerInit
    /\ templates \in { <<ConstrainedTemplate(constraints)>> : constraints \in ConstraintLists }
    /\ request \in [engineeredContext : { EngineeredContextOf("ctx", "general", <<>>, <<>>, <<>>, 8000) },
                    userQuery : LongQueries,
                    objective : {"analysis"}]

SpecLength == InitLength /\ [][NextPrompt]_vars

\* getPattern(patternId): the Map's own object, or undefined
GetPattern(patternId) ==
    /\ IF patternId \in DOMAIN contextPatterns
       THEN /\ returned' = contextPatterns[patternId]
            /\ handedOut' = HandOut(contextPatterns[patternId])
       ELSE /\ returned' = Undefined
            /\ UNCHANGED handedOut
    /\ lastOp' = "getPattern"
    /\ lastArgs' = <<patternId>>
    /\ minedRuns' = 0
    /\ UNCHANGED <<config, contextHistory, contextPatterns, cleanupTimer, intervals, now,
                   recorded, cleanupRan, destroyed, synthVars, analyzerVars, promptVars,
                   request, desktopVars>>

\* the pattern objects under study: a ContextMemory with the default
\* threshold, its caller holding on to what getPattern returns
InitHandle ==
    /\ MemoryIdle(0)
    /\ EnginesInit

NextHandle ==
    \/ \E context \in FreshContexts(Len(recorded) + 1, now) : AddContextSnapshot(context)
    \/ IdentifyPatterns
    \/ Cleanup
    \/ \E patternId \in DOMAIN contextPatterns \cup {"unknown"} : GetPattern(patternId)

SpecHandle == InitHandle /\ [][NextHandle]_vars

\* the engines idle, beside the desktop application
EnginesIdle ==
    /\ MemoryIdle(0)
    /\ SynthInit
    /\ AnalyzerInit
    /\ PromptInit
    /\ request = NoRequest

\* the shortcuts under study: the model shortcuts, Cmd/Ctrl+4 and Speed Mode,
\* with the window created
InitShortcut ==
    /\ EnginesIdle
    /\ ShortcutIdle
    /\ ProcessingIdle
    /\ workArea = [width |-> 1920, height |-> 1080]
    /\ mainWindow = createWindow(workArea)
    /\ resized = <<>>
    /\ resizes = 0

NextShortcut ==
    \/ PressCmd4
    \/ TimerFires
    \/ Tick
    \/ \E model \in ShortcutModels : SelectModel(model)
    \/ ToggleSpeedMode

SpecShortcut == InitShortcut /\ [][NextShortcut]_vars

\* the window sizes under study: two work areas, the window as createWindow()
\* leaves it, and the renderer reporting content sizes
WorkAreas == { [width |-> 1920, height |-> 1080], [width |-> 1280, height |-> 720] }
ContentWidths == {500, 1200}
ContentHeights == {150, 600, 1000}

InitWindow ==
    /\ EnginesIdle
    /\ ShortcutIdle
    /\ ProcessingIdle
    /\ workArea \in WorkAreas
    /\ mainWindow = createWindow(workArea)
    /\ resized = <<>>
    /\ resizes = 0

NextWindow ==
    \/ IncreaseWindowSize
    \/ DecreaseWindowSize
    \/ \E width \in ContentWidths, height \in ContentHeights : SetWindowDimensions(width, height)

SpecWindow == InitWindow /\ [][NextWindow]_vars

\* the processing under study: the queues as the user left them, with or
\* without a main window
ScreenshotQueues == { <<>>, <<"shot1.png">>, <<"shot1.png", "memo.mp3">> }
ExtraScreenshotQueues == { <<>>, <<"extra1.png">> }

InitProcessing ==
    /\ EnginesIdle
    /\ ShortcutIdle
    /\ workArea = [width |-> 1920, height |-> 1080]
    /\ mainWindow \in {NoWindow, createWindow(workArea)}
    /\ resized = <<>>
    /\ resizes = 0
    /\ view = "queue"
    /\ screenshotQueue \in ScreenshotQueues
    /\ extraScreenshotQueue \in ExtraScreenshotQueues
    /\ problemInfo = 0
    /\ hasDebugged = FALSE
    /\ currentProcessingAbortController = 0
    /\ currentExtraProcessingAbortController = 0
    /\ controllers = 0
    /\ aborted = {}
    /\ runs = <<>>
    /\ cancelled = FALSE

\* the promise run r awaits settles, in one of the ways it can
RunSettles(r) ==
    /\ r \in DOMAIN runs
    /\ \E outcome \in Outcomes(runs[r].pc) : Settle(r, outcome)

NextProcessing ==
    \/ ProcessScreenshots
    \/ \E r \in DOMAIN runs : RunSettles(r)
    \/ CancelOngoingRequests
    \/ ToggleView

SpecProcessing == InitProcessing /\ [][NextProcessing]_vars

\* the relevance score under study: one recorded context and one current
\* context, each stamped within a day of the other or more than a day apart,
\* either of them the later one, the recorded one at three confidences
RelevanceTimes == {0, 1, HoursPerDay, HoursPerDay + 1}
Confidences == {0, 5, 10}

InitRelevance ==
    /\ config = [maxHistorySize |-> MaxHistorySize,
                 patternDetectionThreshold |-> 2,
                 contextRetentionPeriod |-> 1]
    /\ contextHistory \in
          { << Snapshot([ScreenContext("c1", ts, kind) EXCEPT !.confidence = confidence]) >> :
               ts \in RelevanceTimes, kind \in Kinds, confidence \in Confidences }
    /\ contextPatterns = PatternsAfter(contextHistory)
    /\ recorded = contextHistory
    /\ cleanupTimer = TimerHandle
    /\ intervals = {TimerHandle}
    /\ now = HoursPerDay + 1
    /\ lastOp = "addContextSnapshot"
    /\ lastArgs = <<>>
    /\ returned = <<>>
    /\ cleanupRan = FALSE
    /\ destroyed = FALSE
    /\ minedRuns = 0
    /\ handedOut = NoHandle
    /\ SynthInit
    /\ AnalyzerInit
    /\ PromptInit
    /\ DesktopIdle
    /\ request \in { ScreenContext("c2", ts, kind) : ts \in RelevanceTimes, kind \in Kinds }

NextRelevance == GetRelevantContext(request, 1)

SpecRelevance == InitRelevance /\ [][NextRelevance]_vars

\* the queue view under study: no extra screenshot has been taken, so that a
\* run started in the solutions view finds nothing to debug. Every backend
\* call settles in the end: the promise a run awaits resolves or rejects (the
\* request answers, fails or times out)
InitQueueView ==
    /\ InitProcessing
    /\ extraScreenshotQueue = <<>>

SpecQueueView ==
    /\ InitQueueView
    /\ [][NextProcessing]_vars
    /\ WF_vars(\E r \in DOMAIN runs : RunSettles(r))

Next ==
    \/ \E context \in FreshContexts(Len(recorded) + 1, now) : AddContextSnapshot(context)
    \/ Cleanup
    \/ TimerCleanup
    \/ IdentifyPatterns
    \/ Destroy
    \/ AdvanceClock

Spec == Init /\ [][Next]_vars

-----------------------------------------------------------------------------
(* Properties *)

Count(arr, x) == Cardinality({ i \in DOMAIN arr : arr[i] = x })

TimestampOf(snapshot) == snapshot.context.timestamp

\* C1: whenever addContextSnapshot has returned, the history holds at most
\* config.maxHistorySize snapshots, for every maxHistorySize >= 0.
C1_RetentionBound ==
    lastOp = "addContextSnapshot" => Len(contextHistory) <= config.maxHistorySize

\* C2 as claimed: a cleanup at time now removes exactly the snapshots with
\* timestamp < now - contextRetentionPeriod and keeps the others in order.
C2_RemovesIffOlder ==
    [][ (Cleanup \/ TimerCleanup) =>
            contextHistory' =
                SelectSeq(contextHistory,
                          LAMBDA s : ~(TimestampOf(s) < now - config.contextRetentionPeriod))
      ]_vars

\* C2 as amended: a cleanup at time now removes exactly the snapshots with
\* timestamp <= now - contextRetentionPeriod; afterwards no retained snapshot
\* is at or before the cutoff, every snapshot after the cutoff is retained as
\* often as before, and the survivors keep their relative order.
C2_RemovesIffNotNewer ==
    [][ (Cleanup \/ TimerCleanup) =>
            LET cutoffTime == now - config.contextRetentionPeriod
            IN  /\ \A i \in DOMAIN contextHistory' : TimestampOf(contextHistory'[i]) > cutoffTime
                /\ \A s \in Range(contextHistory) :
                      Count(contextHistory', s) =
                         IF TimestampOf(s) <= cutoffTime THEN 0 ELSE Count(contextHistory, s)
                /\ contextHistory' =
                      SelectSeq(contextHistory, LAMBDA s : s \in Range(contextHistory'))
      ]_vars

\* C2 witness: a cleanup has just dropped a snapshot stamped exactly at the
\* cutoff and kept a newer one (nothing was evicted for capacity).
C2_Witness ==
    /\ lastOp \in {"cleanup", "timerCleanup"}
    /\ Len(recorded) <= config.maxHistorySize
    /\ contextHistory # <<>>
    /\ \E s \in Range(recorded) :
          /\ TimestampOf(s) = now - config.contextRetentionPeriod
          /\ s \notin Range(contextHistory)

\* C3: with maxHistorySize N >= 1 and no cleanup so far, after k records the
\* history is the last min(k, N) recorded snapshots in recording order.
C3_SlidingWindow ==
    (config.maxHistorySize >= 1 /\ ~cleanupRan) =>
        LET k == Len(recorded)
            m == Min(k, config.maxHistorySize)
        IN  contextHistory = SubSeq(recorded, k - m + 1, k)

\* C3 witness: three records into a window of two, the oldest one evicted.
C3_Witness ==
    /\ config.maxHistorySize = 2
    /\ ~cleanupRan
    /\ Len(recorded) = 3
    /\ contextHistory = <<recorded[2], recorded[3]>>
    /\ recorded[1] \notin Range(contextHistory)

\* C4: getRelevantContext never returns a snapshot whose context id is the id
\* of the query context.
C4_SelfExclusion ==
    lastOp = "getRelevantContext" =>
        \A i \in DOMAIN returned : returned[i].context.id # lastArgs[1].id

\* C4 witness: the history holds two different snapshots that both carry the
\* query's id, the caller asks for up to MaxResults and none of them comes back.
C4_Witness ==
    /\ lastOp = "getRelevantContext"
    /\ lastArgs[2] = MaxResults
    /\ Len(contextHistory) = 2
    /\ contextHistory[1] # contextHistory[2]
    /\ \A i \in DOMAIN contextHistory : contextHistory[i].context.id = lastArgs[1].id
    /\ returned = <<>>

ScoreFor(snapshot) == calculateRelevanceScore(lastArgs[1], snapshot.context)

\* C5: for maxResults >= 0 getRelevantContext returns at most maxResults
\* snapshots, all from the history, in non-increasing order of score, none
\* left out scoring strictly higher than one returned; history and pattern
\* map are untouched.
C5_TopRanked ==
    /\ [](lastOp = "getRelevantContext" =>
            /\ Len(returned) <= lastArgs[2]
            /\ \A s \in Range(returned) : Count(returned, s) <= Count(contextHistory, s)
            /\ \A i, j \in DOMAIN returned : i < j => ScoreFor(returned[i]) >= ScoreFor(returned[j])
            /\ \A s \in Range(contextHistory) :
                  (s.context.id # lastArgs[1].id /\ Count(returned, s) < Count(contextHistory, s))
                     => \A r \in Range(returned) : ScoreFor(s) <= ScoreFor(r))
    /\ [][ (\E c \in ContextsAt(now), m \in 0..MaxResults : GetRelevantContext(c, m))
              => UNCHANGED <<contextHistory, contextPatterns>> ]_vars

\* C5 witness: two eligible snapshots, the lower-scoring one recorded first,
\* maxResults = 1, and the higher-scoring one is the one returned.
C5_Witness ==
    /\ lastOp = "getRelevantContext"
    /\ lastArgs[2] = 1
    /\ Len(contextHistory) = 2
    /\ \A i \in DOMAIN contextHistory : contextHistory[i].context.id # lastArgs[1].id
    /\ ScoreFor(contextHistory[1]) < ScoreFor(contextHistory[2])
    /\ returned = <<contextHistory[2]>>

\* C6: identifyPatterns called twice in succession returns the same patterns
\* the second time and leaves the stored pattern map as the first call left it.
C6_MiningIdempotent ==
    [][ (lastOp = "identifyPatterns" /\ IdentifyPatterns) =>
            (returned' = returned /\ contextPatterns' = contextPatterns) ]_vars

\* C6 witness: a second identifyPatterns in succession has returned patterns.
C6_Witness ==
    /\ lastOp = "identifyPatterns"
    /\ minedRuns = 2
    /\ returned # <<>>

\* C7 as claimed: right after identifyPatterns the stored patterns are exactly
\* the patterns it returned.
C7_ReplacesStoredMap ==
    lastOp = "identifyPatterns" => getPatterns(contextPatterns) = Range(returned)

\* C7 as amended: identifyPatterns stores every pattern it returns under its
\* id and leaves every stored pattern with another id as it was.
C7_UpsertsReturned ==
    [][ IdentifyPatterns =>
            LET ids == { returned'[i].id : i \in DOMAIN returned' }
            IN  /\ DOMAIN contextPatterns' = DOMAIN contextPatterns \cup ids
                /\ \A i \in DOMAIN returned' : contextPatterns'[returned'[i].id] = returned'[i]
                /\ \A k \in DOMAIN contextPatterns \ ids : contextPatterns'[k] = contextPatterns[k]
      ]_vars

\* C7 witness: identifyPatterns has returned patterns, and a mined pattern of
\* an earlier call that is not among them is still stored.
C7_Witness ==
    /\ lastOp = "identifyPatterns"
    /\ returned # <<>>
    /\ "env-ide" \in DOMAIN contextPatterns
    /\ \A i \in DOMAIN returned : returned[i].id # "env-ide"

TimesRecorded(environment, activity) ==
    Cardinality({ i \in DOMAIN recorded :
                    /\ recorded[i].context.environment = environment
                    /\ recorded[i].context.activity = activity })

\* C8: a pair (environment, activity) recorded n >= 1 times has the stored
\* pattern '<environment>-<activity>' with frequency n and confidence
\* min(1, n/10); a pair never recorded has none.
C8_CombinedKeyPattern ==
    \A environment \in EnvironmentType, activity \in ActivityType :
        LET n == TimesRecorded(environment, activity)
            key == environment \o "-" \o activity
        IN  IF n >= 1
            THEN /\ key \in DOMAIN contextPatterns
                 /\ contextPatterns[key].frequency = n
                 /\ contextPatterns[key].confidence * 10 = Min(10, n) * ConfScale
            ELSE key \notin DOMAIN contextPatterns

\* C8 witness: ide/coding recorded twice, frequency 2 and confidence 0.2.
C8_Witness ==
    /\ TimesRecorded("ide", "coding") = 2
    /\ contextPatterns["ide-coding"].frequency = 2
    /\ contextPatterns["ide-coding"].confidence * 10 = 2 * ConfScale

\* C9: the constructor arms the cleanup timer; once destroy() has been called
\* the handle is null, no timer-triggered cleanup runs any more, and a further
\* destroy() changes nothing.
C9_TimerLifecycle ==
    /\ [](~destroyed => (cleanupTimer = TimerHandle /\ TimerHandle \in intervals))
    /\ [](destroyed => (cleanupTimer = Null /\ lastOp # "timerCleanup"))
    /\ [][ destroyed => ~TimerCleanup ]_vars
    /\ [][ (destroyed /\ Destroy) =>
              UNCHANGED <<cleanupTimer, intervals, contextHistory, contextPatterns>> ]_vars

\* C9 witness: a cleanup ran, destroy() was called, records went on and the
\* clock moved on until a snapshot older than the cutoff is still retained.
C9_Witness ==
    /\ destroyed
    /\ cleanupRan
    /\ lastOp = "addContextSnapshot"
    /\ now = MaxTime
    /\ \E s \in Range(contextHistory) : TimestampOf(s) < now - config.contextRetentionPeriod

\* C10: every stored domain record equals its value right after construction,
\* whatever synthesizeContext calls were made.
C10_DomainTableReadOnly ==
    /\ DOMAIN domainKnowledge = {"development"}
    /\ Deref(domainKnowledge["development"], heap) = Deref(developmentDomain, developmentArrays)

\* C11: the confidence of the context analyzeScreenContext returns is the
\* weighted combination of the five sub-confidences with weights 0.3, 0.2, 0.2,
\* 0.2 and 0.1; with environment sub-confidence e and activity sub-confidence a,
\* and the other three between 0 and 1, it lies between 0.3e + 0.2a and
\* 0.3e + 0.2a + 0.5. Confidences are in tenths.
C11_WeightedConfidence ==
    lastOp = "analyzeScreenContext" =>
        LET results == SubClassifications(lastArgs[1])
            e == results[1].value.confidence
            a == results[2].value.confidence
        IN  /\ 3 * e + 2 * a <= 10 * returned.confidence
            /\ 10 * returned.confidence <= 3 * e + 2 * a + 50

\* C12: when a sub-classification throws, analyzeScreenContext throws one error
\* whose message is 'Context analysis failed: ' and the message of a cause,
\* returns no ScreenContext and leaves the active context as it was; the active
\* context changes only in a call that returns, and then to the context returned.
C12_AllOrNothing ==
    /\ [][ analyses' # analyses =>
             LET results == SubClassifications(lastArgs'[1])
                 causes == { results[n].message :
                                n \in { m \in DOMAIN results : results[m].threw } }
             IN  IF causes # {}
                 THEN /\ lastOp' = "analyzeScreenContext threw"
                      /\ DOMAIN returned' = {"name", "message"}
                      /\ \E cause \in causes :
                            returned'.message = "Context analysis failed: " \o cause
                      /\ activeContext' = activeContext
                 ELSE /\ lastOp' = "analyzeScreenContext"
                      /\ "environment" \in DOMAIN returned'
                      /\ activeContext' = returned'
         ]_vars
    /\ [][ activeContext' # activeContext =>
             (lastOp' = "analyzeScreenContext" /\ activeContext' = returned') ]_vars

\* C12 witness: an analysis has succeeded, a later one has failed on a window
\* title that is no string, and the active context is still there.
C12_Witness ==
    /\ lastOp = "analyzeScreenContext threw"
    /\ lastArgs[1].windowTitle.type = "number"
    /\ returned.message
          = "Context analysis failed: additionalData.windowTitle?.toLowerCase is not a function"
    /\ activeContext # NoContext
    /\ activeContext.id = "ctx1"
    /\ analyses = 2

\* the environments in priority order, with their sub-confidences in tenths
EnvironmentTable ==
    << [type |-> "ide",      confidence |-> 4, vocabulary |-> ideIndicators],
       [type |-> "browser",  confidence |-> 3, vocabulary |-> browserIndicators],
       [type |-> "design",   confidence |-> 4, vocabulary |-> designIndicators],
       [type |-> "document", confidence |-> 3, vocabulary |-> documentIndicators],
       [type |-> "terminal", confidence |-> 4, vocabulary |-> terminalIndicators] >>

\* text contains word, whatever the case of its letters
ContainsIgnoringCase(text, word) ==
    \E i \in 1..(Len(text) - Len(word) + 1) :
        toLowerCase(SubSeq(text, i, i + Len(word) - 1)) = word

\* C13: the environment is the first of ide, browser, design, document,
\* terminal with a vocabulary entry contained, case-insensitively, in the
\* window title or the application name, with sub-confidence 0.4, 0.3, 0.4,
\* 0.3, 0.4; it is 'unknown' with 0.1 exactly when none matches; a title
\* containing "vscode" gives 'ide' with at least 0.4.
C13_FirstMatch ==
    lastOp = "analyzeScreenContext" =>
        LET title == lastArgs[1].windowTitle.value
            app == lastArgs[1].activeApplication.value
            matching == { n \in DOMAIN EnvironmentTable :
                            \E w \in Range(EnvironmentTable[n].vocabulary) :
                                ContainsIgnoringCase(title, w) \/ ContainsIgnoringCase(app, w) }
            classified == categorizeEnvironment(lastArgs[1]).value
        IN  /\ returned.environment = classified.type
            /\ IF matching = {}
               THEN classified.type = "unknown" /\ classified.confidence = 1
               ELSE LET first == CHOOSE n \in matching : \A m \in matching : n <= m
                    IN  /\ classified.type = EnvironmentTable[first].type
                        /\ classified.confidence = EnvironmentTable[first].confidence
            /\ ContainsIgnoringCase(title, "vscode") =>
                  (returned.environment = "ide" /\ classified.confidence >= 4)

\* C13 witness: the title names a browser, the application an IDE, and the
\* environment returned is 'ide'.
C13_Witness ==
    /\ lastOp = "analyzeScreenContext"
    /\ lastArgs[1].windowTitle = StringValue("Stack Overflow - Google Chrome")
    /\ lastArgs[1].activeApplication = StringValue("Code")
    /\ returned.environment = "ide"

\* C14: the confidence of every context analyzeScreenContext returns is in
\* [0, 1], and so is each of the six quality metrics synthesizeContext returns,
\* whatever the timestamp, the sources, the history and the suggested actions.
C14_ScoresWithinBounds ==
    /\ lastOp = "analyzeScreenContext" => returned.confidence \in 0..10
    /\ lastOp = "synthesizeContext" =>
          /\ DOMAIN returned.contextQuality
                = {"accuracy", "completeness", "relevance", "timeliness",
                   "actionability", "overallScore"}
          /\ \A metric \in DOMAIN returned.contextQuality :
                returned.contextQuality[metric] \in 0..QualityScale

\* C14 witness: a context stamped after the synthesis time, with more than
\* five sources and full confidence: timeliness and accuracy are exactly 1.
C14_Witness ==
    /\ lastOp = "synthesizeContext"
    /\ lastArgs[1].timestamp > now
    /\ Len(lastArgs[1].contextSources) > 5
    /\ lastArgs[1].confidence = 10
    /\ returned.contextQuality.timeliness = QualityScale
    /\ returned.contextQuality.accuracy = QualityScale

\* C15: for every snapshot of the history the Synthesizer scores it as
\* ContextMemory does, and it returns at most 5 snapshots.
C15_SameScoringContract ==
    lastOp = "synthesizeContext" =>
        /\ \A n \in DOMAIN lastArgs[2] :
              calculateHistoricalRelevance(lastArgs[1], lastArgs[2][n].context)
                 = calculateRelevanceScore(lastArgs[1], lastArgs[2][n].context)
        /\ Len(returned.relevantHistory) <= 5

\* the decision table, first row first: the (environment, activity) pairs of a
\* row and its domain
DomainTable ==
    << [pairs |-> { p \in EnvironmentType \X ActivityType : p[1] = "ide" \/ p[2] = "coding" },
        domain |-> "development"],
       [pairs |-> { <<"browser", "research">> }, domain |-> "research"],
       [pairs |-> { p \in EnvironmentType \X ActivityType : p[1] = "design" },
        domain |-> "design"],
       [pairs |-> { p \in EnvironmentType \X ActivityType : p[1] = "document" \/ p[2] = "writing" },
        domain |-> "writing"],
       [pairs |-> { p \in EnvironmentType \X ActivityType : p[1] = "terminal" },
        domain |-> "system-administration"],
       [pairs |-> EnvironmentType \X ActivityType, domain |-> "general"] >>

\* C16: the domain of a synthesis is the domain of the first row of the table
\* that has its (environment, activity) pair; with no history, a terminal
\* context engaged in debugging at confidence 0.9 gets no relevant history, the
\* domain 'system-administration' and a description containing 'terminal',
\* 'debugging' and '(high confidence)'.
C16_DomainTable ==
    lastOp = "synthesizeContext" =>
        LET pair == <<lastArgs[1].environment, lastArgs[1].activity>>
            row == CHOOSE n \in DOMAIN DomainTable :
                      /\ pair \in DomainTable[n].pairs
                      /\ \A m \in 1..(n - 1) : pair \notin DomainTable[m].pairs
        IN  /\ returned.domainSpecificInfo.domain = DomainTable[row].domain
            /\ (pair = <<"terminal", "debugging">> /\ lastArgs[1].confidence = 9
                  /\ lastArgs[2] = <<>>) =>
                  /\ returned.relevantHistory = <<>>
                  /\ returned.domainSpecificInfo.domain = "system-administration"
                  /\ includes(returned.situationalContext, "terminal")
                  /\ includes(returned.situationalContext, "debugging")
                  /\ includes(returned.situationalContext, "(high confidence)")

\* C16 witness: the synthesis of the terminal context engaged in debugging.
C16_Witness ==
    /\ lastOp = "synthesizeContext"
    /\ lastArgs[1].environment = "terminal"
    /\ lastArgs[1].activity = "debugging"
    /\ lastArgs[1].confidence = 9
    /\ lastArgs[2] = <<>>
    /\ returned.domainSpecificInfo.domain = "system-administration"
    /\ returned.situationalContext
          = "User is working in a terminal environment currently engaged in debugging "
            \o "(high confidence)"

\* s has a '{{' with a '}}' after it
HasPlaceholder(s) ==
    LET opens  == { i \in 1..(Len(s) - 1) : SubSeq(s, i, i + 1) = "{{" }
        closes == { j \in 1..(Len(s) - 1) : SubSeq(s, j, j + 1) = "}}" }
    IN  \E i \in opens, j \in closes : i + 2 <= j

\* C17: the prompt generateContextualPrompt returns contains no '{{...}}'
\* placeholder; for the query "fix bug" in the context "ide coding session" it
\* contains both.
C17_NoPlaceholderRemains ==
    lastOp = "generateContextualPrompt" =>
        /\ ~HasPlaceholder(returned.prompt)
        /\ (lastArgs[2] = "fix bug" /\ lastArgs[1].situationalContext = "ide coding session") =>
              (includes(returned.prompt, "fix bug")
                 /\ includes(returned.prompt, "ide coding session"))

\* C18: the template generateContextualPrompt uses has the requested
\* objective, and the third fallback prompt is worded for that objective.
C18_TemplateHasObjective ==
    lastOp = "generateContextualPrompt" =>
        LET template == selectOptimalTemplate(templates, lastArgs[1], lastArgs[3])
        IN  /\ returned.metadata.templateUsed = template.id
            /\ template.objective = lastArgs[3]
            /\ returned.fallbackPrompts[3]
                  = "As an expert assistant, please "
                    \o (IF lastArgs[3] = "analysis" THEN "analyze" ELSE "help with")
                    \o ": " \o lastArgs[2]

\* the score as stated: 0.5 for a domain match, 0.3 x successRate and
\* min(0.2, usageCount / 100), times PromptScale
StatedScore(template, context) ==
    (IF template.domain = context.domainSpecificInfo.domain THEN PromptScale \div 2 ELSE 0)
    + (template.metadata.successRate * 3 * PromptScale) \div (10 * 100)
    + Min(PromptScale \div 5, (template.metadata.usageCount * PromptScale) \div 100)

C20_LengthConstraint ==
    lastOp = "generateContextualPrompt" =>
        LET template == selectOptimalTemplate(templates, lastArgs[1], lastArgs[3])
            adapted == adaptPromptToContext(template, lastArgs[1], lastArgs[2])
            staged == improveSpecificity(enhanceClarity(removeRedundancy(adapted)))
            concise == \E n \in DOMAIN template.constraints :
                          /\ template.constraints[n].type = "length"
                          /\ template.constraints[n].constraint = "concise"
        IN  /\ concise => Len(returned.prompt) <= 503
            /\ IF concise /\ Len(staged) > 500
               THEN returned.prompt = SubSeq(staged, 1, 500) \o "..."
               ELSE returned.prompt = staged

\* C20 witness: a concise template, an adapted prompt of length 600, and a
\* prompt of length 503 that ends in '...'.
C20_Witness ==
    /\ lastOp = "generateContextualPrompt"
    /\ templates[1].constraints
          = << [type |-> "length", constraint |-> "concise", priority |-> 1] >>
    /\ Len(adaptPromptToContext(templates[1], lastArgs[1], lastArgs[2])) = 600
    /\ Len(returned.prompt) = 503
    /\ SubSeq(returned.prompt, 501, 503) = "..."

\* the confidence as stated, for the template the prompt was made from
StatedConfidence(template, context, optimization) ==
    WeightedConfidence(context.contextQuality.overallScore, template.metadata.successRate,
                       optimization)

C22_DoublePressKept ==
    (gesture = "double" /\ timers = <<>>) => currentModel = DoublePressModel

\* C23: two toggleSpeedMode calls in succession leave the model that was
\* current before them.
C23_ToggleTwiceRestores ==
    toggles = 2 => currentModel = beforeToggles

\* C24: decreaseWindowSize never makes the window wider or taller, and
\* increaseWindowSize never makes it narrower or shorter.
C24_ResizeDirection ==
    IF resized = <<>> THEN TRUE
    ELSE /\ resized.call = "decreaseWindowSize" =>
               (mainWindow.width <= resized.width /\ mainWindow.height <= resized.height)
         /\ resized.call = "increaseWindowSize" =>
               (mainWindow.width >= resized.width /\ mainWindow.height >= resized.height)

\* C25: a pattern object obtained from getPattern keeps the frequency, the
\* contexts and the confidence it had when it was handed out.
C25_HandedOutPatternKept ==
    IF handedOut = NoHandle THEN TRUE
    ELSE /\ handedOut.pattern.frequency = handedOut.obtained.frequency
         /\ handedOut.pattern.contexts = handedOut.obtained.contexts
         /\ handedOut.pattern.confidence = handedOut.obtained.confidence

\* C26: for every returned context the recency term is between 0 and 0.15 and
\* the relevance score between 0 and 1, whichever of the two contexts is the
\* later one.
C26_TermsInRange ==
    lastOp = "getRelevantContext" =>
        \A n \in DOMAIN returned :
            /\ recencyTerm(lastArgs[1], returned[n].context) >= 0
            /\ recencyTerm(lastArgs[1], returned[n].context) <= (15 * ScoreScale) \div 100
            /\ calculateRelevanceScore(lastArgs[1], returned[n].context) >= 0
            /\ calculateRelevanceScore(lastArgs[1], returned[n].context) <= ScoreScale

\* the events that report a result
ResultEvents == {"PROBLEM_EXTRACTED", "SOLUTION_SUCCESS", "DEBUG_SUCCESS"}

\* C27: a run that cancelOngoingRequests() found waiting for the backend sends
\* no PROBLEM_EXTRACTED, SOLUTION_SUCCESS or DEBUG_SUCCESS afterwards and
\* stores no problem info; after the call both controller fields are null and
\* hasDebugged is false.
C27_CancelledRunIsSilent ==
    \A r \in DOMAIN runs :
        runs[r].cancelledAt >= 0 =>
            /\ \A i \in DOMAIN runs[r].events :
                  i > runs[r].cancelledAt => runs[r].events[i] \notin ResultEvents
            /\ ~runs[r].storedAfterCancel

\* C28: while nothing is cancelled, currentProcessingAbortController is
\* non-null exactly when a run that processes the screenshot queue is in
\* flight, and currentExtraProcessingAbortController exactly when a debug run is.
C28_ControllerTracksRuns ==
    ~cancelled =>
        /\ (currentProcessingAbortController # 0)
              <=> (\E r \in DOMAIN runs : runs[r].branch = "queue" /\ runs[r].pc # "done")
        /\ (currentExtraProcessingAbortController # 0)
              <=> (\E r \in DOMAIN runs : runs[r].branch = "debug" /\ runs[r].pc # "done")

\* what the runs have sent, in every state
QueueRunEvents ==
    \A r \in DOMAIN runs :
        LET run == runs[r]
            events == run.events
            closing == { i \in DOMAIN events :
                           events[i] \in {"SOLUTION_SUCCESS", "INITIAL_SOLUTION_ERROR"} }
        IN  /\ run.branch = "queue" =>
                  /\ events[1] = "INITIAL_START"
                  /\ Count(events, "INITIAL_START") = 1
                  /\ IF run.pc = "done" THEN closing = {Len(events)} ELSE closing = {}
                  /\ \A i \in DOMAIN events :
                        events[i] = "SOLUTION_SUCCESS" =>
                            \E j \in 1..(i - 1) : events[j] = "PROBLEM_EXTRACTED"
            /\ run.branch = "queue, empty" =>
                  (events = <<"NO_SCREENSHOTS">> /\ run.calls = 0 /\ run.setViews = 0)
            /\ run.branch = "no window" => (events = <<>> /\ run.calls = 0)

\* a run over the screenshot queue has not ended yet
QueueRunInFlight == \E r \in DOMAIN runs : runs[r].branch = "queue" /\ runs[r].pc # "done"

\* C29: a run over a non-empty queue whose last entry is no audio file sends
\* INITIAL_START first, ends, and when it has ended it has sent exactly one of
\* SOLUTION_SUCCESS and INITIAL_SOLUTION_ERROR, as its last event, and
\* SOLUTION_SUCCESS only after its PROBLEM_EXTRACTED; a run over an empty queue
\* sends NO_SCREENSHOTS only, calls no backend and sets no view; a run without
\* a main window sends nothing.
C29_QueueRunEvents ==
    /\ []QueueRunEvents
    /\ QueueRunInFlight ~> ~QueueRunInFlight

\* two overlapping runs over the queue have ended, one with SOLUTION_SUCCESS
\* and one with INITIAL_SOLUTION_ERROR after its PROBLEM_EXTRACTED
C29_Witness ==
    \E r, q \in DOMAIN runs :
        /\ runs[r].branch = "queue" /\ runs[q].branch = "queue"
        /\ runs[r].events = <<"INITIAL_START", "PROBLEM_EXTRACTED", "SOLUTION_SUCCESS">>
        /\ runs[q].events = <<"INITIAL_START", "PROBLEM_EXTRACTED", "INITIAL_SOLUTION_ERROR">>

\* the template with every placeholder of its body replaced by its value, the
\* values taken as they are
SubstitutedAtOnce(body, variables) ==
    LET Placeholder(n) == "{{" \o variables[n][1] \o "}}"
        StartsAt(i, n) == /\ i + Len(Placeholder(n)) - 1 <= Len(body)
                          /\ SubSeq(body, i, i + Len(Placeholder(n)) - 1) = Placeholder(n)
        opens == { i \in 1..(Len(body) - 1) : SubSeq(body, i, i + 1) = "{{" }
        starts == { i \in opens : \E n \in DOMAIN variables : StartsAt(i, n) }
        VariableAt(i) == CHOOSE n \in DOMAIN variables : StartsAt(i, n)
        covered == { i \in 1..Len(body) :
                       \E j \in starts : j < i /\ i < j + Len(Placeholder(VariableAt(j))) }
    IN  Concat([i \in 1..Len(body) |->
                   IF i \in starts THEN variables[VariableAt(i)][2]
                   ELSE IF i \in covered THEN ""
                   ELSE CharAt(body, i)])

\* C30: the adapted prompt is the template with the placeholders of its body
\* replaced by their values; what a value contains is not replaced again (for
\* values without '$', which String.prototype.replace reads as a pattern).
C30_ValuesNotReExpanded ==
    (lastOp = "generateContextualPrompt" /\ ~includes(lastArgs[2], "$")) =>
        LET template == selectOptimalTemplate(templates, lastArgs[1], lastArgs[3])
        IN  adaptPromptToContext(template, lastArgs[1], lastArgs[2])
               = SubstitutedAtOnce(template.template, PromptVariables(lastArgs[1], lastArgs[2]))

=============================================================================
